---------------------------- MODULE Spec2Model ----------------------------
(***************************************************************************)
(* Model of the Jira integration app: the webhook endpoint                 *)
(* (app.http.onRequest), the field-mapping cache refresh                   *)
(* (fetchAndCacheFieldMapping, app.onSync), the cache readers              *)
(* (onInternalMessage of the webhook blocks) and the field value           *)
(* normalizer (extractFieldValue, extractSlaFieldValue).                   *)
(*                                                                         *)
(* JavaScript objects are functions whose DOMAIN is the set of keys that   *)
(* are present: obj.k is undefined exactly when k is not in DOMAIN obj.    *)
(***************************************************************************)
EXTENDS Naturals, Sequences, FiniteSets, TLC

\* ------------------------------------------------------------------ bounds

\* Hex digits of a digest (HMAC-SHA256 has 64; the model keeps a few).
DigestLen == 2
\* Blocks installed in the flow when blocksApi.list is answered.
MaxBlocks == 2
\* Fields in one answer of GET /field.
MaxFields == 2
\* The longest array among the raw field values.
MaxItems == 2

\* The deepest call stack of extractFieldValue the model follows.
MaxCalls == 4

\* The most items one page of a paginated fetch holds.
MaxPage == 2

\* The most items a server pages through.
MaxTotal == 2

\* --------------------------------------------------------- JavaScript values

EmptyObject == [k \in {} |-> ""]

Has(obj, key) == key \in DOMAIN obj

\* JavaScript truthiness of an optional string member: present and not "".
Truthy(obj, key) == Has(obj, key) /\ obj[key] # ""

\* {k1: obj.k1, k2: obj.k2, ...}; a member that is undefined in obj is
\* dropped when the body is serialised, so it is absent here.
Pick(obj, keys) == [k \in (keys \cap DOMAIN obj) |-> obj[k]]

\* ------------------------------------------------------------ webhook inputs

AppConfigs ==
    { EmptyObject,
      [webhookSecret |-> ""],
      [webhookSecret |-> "k1"] }

SupportedEvents ==
    { "jira:issue_created", "jira:issue_updated",
      "comment_created", "jira:version_released" }

EventNames == SupportedEvents \cup { "jira:issue_deleted" }

Issues ==
    { [id |-> "1", fields |-> [project |-> [key |-> "PROJ"],
                               issuetype |-> [name |-> "Bug"]]],
      [id |-> "2", fields |-> [project |-> [key |-> "OTHER"],
                               issuetype |-> [name |-> "Task"]]] }

SubObjects(key) ==
    CASE key = "issue"     -> Issues
      [] key = "user"      -> { [accountId |-> "u1"] }
      [] key = "changelog" -> { [id |-> "cl1"] }
      [] key = "comment"   -> { [id |-> "cm1"] }
      [] key = "version"   -> { [id |-> "v1"] }

PayloadKeys == { "issue", "user", "changelog", "comment", "version" }

\* The member names a payload carries: all the sub-objects, all but one of
\* them, or none.
PayloadShapes ==
    { PayloadKeys, { } } \cup { PayloadKeys \ { k } : k \in PayloadKeys }

\* The sub-objects of a JSON object payload over the member names `keys`.
MembersOver(keys) ==
    { f \in [keys -> UNION { SubObjects(k) : k \in keys }] :
        \A k \in keys : f[k] \in SubObjects(k) }

\* JSON object payloads: sub-objects with a webhookEvent member, and the
\* objects without one that are empty or complete.
ObjectPayloads ==
    UNION { { f @@ [webhookEvent |-> ev] :
                f \in MembersOver(keys), ev \in EventNames }
            : keys \in PayloadShapes }
      \cup { EmptyObject }

\* Parsed JSON values: null, a number, or an object.
JsonValues ==
    { [type |-> "null"], [type |-> "number"] }
      \cup { [type |-> "object", members |-> m] : m \in ObjectPayloads }

\* Raw request bodies: text that is not JSON, or the text of a JSON value.
RawBodies ==
    { [text |-> "garbage"] } \cup { [text |-> "json", value |-> v] : v \in JsonValues }

\* ------------------------------------------------------------------ crypto

HexDigits ==
    << "0", "1", "2", "3", "4", "5", "6", "7",
       "8", "9", "a", "b", "c", "d", "e", "f" >>

\* digest("hex"): one character per 4-bit digit.
RECURSIVE Hex(_)
Hex(digest) ==
    IF digest = << >> THEN ""
    ELSE HexDigits[Head(digest) + 1] \o Hex(Tail(digest))

KeyCode(key) == CASE key = "k1" -> 1 [] key = "k2" -> 2 [] OTHER -> 0

EventCode(ev) ==
    CASE ev = "jira:issue_created"    -> 1
      [] ev = "jira:issue_updated"    -> 2
      [] ev = "comment_created"       -> 3
      [] ev = "jira:version_released" -> 4
      [] OTHER                        -> 5

\* A number standing for the bytes of a raw body.
BodyCode(raw) ==
    IF raw.text # "json" THEN 1
    ELSE IF raw.value.type = "null" THEN 2
    ELSE IF raw.value.type = "number" THEN 3
    ELSE LET m == raw.value.members
         IN  4 + (IF Has(m, "webhookEvent") THEN EventCode(m.webhookEvent) ELSE 0)
               + 6 * Cardinality(DOMAIN m)
               + (IF Has(m, "issue") THEN 37 * Cardinality(DOMAIN m.issue.fields) ELSE 0)

\* crypto.createHmac("sha256", key).update(rawBody).digest(): a keyed digest,
\* a fixed function of the key and the body, as a sequence of 4-bit digits.
HmacSha256(key, raw) ==
    [i \in 1..DigestLen |-> (7 * KeyCode(key) + 3 * BodyCode(raw) + 5 * i) % 16]

\* crypto.timingSafeEqual on the UTF-8 bytes of two (ASCII) strings: it
\* throws a RangeError when the byte lengths differ.
TimingSafeEqual(a, b) ==
    IF Len(a) # Len(b) THEN "throws"
    ELSE IF a = b THEN "true" ELSE "false"

SignatureHeader == "X-Hub-Signature"

\* The digest with its last digit changed in one bit.
FlipBit(digest) ==
    [digest EXCEPT ![Len(digest)] = IF @ % 2 = 0 THEN @ + 1 ELSE @ - 1]

\* Header values a sender may put on a request with body raw: empty, the
\* signature under key k1, that signature with one bit flipped, cut short,
\* and with a character appended.
SignatureValues(raw) ==
    LET d == HmacSha256("k1", raw)
    IN  { "",
          "sha256=" \o Hex(d),
          "sha256=" \o Hex(FlipBit(d)),
          "sha256=" \o Hex(SubSeq(d, 1, DigestLen - 1)),
          "sha256=" \o Hex(d) \o "0" }

Requests ==
    UNION { { [headers |-> EmptyObject, rawBody |-> raw] } \cup
            { [headers |-> (SignatureHeader :> v), rawBody |-> raw] :
                v \in SignatureValues(raw) }
            : raw \in RawBodies }

\* ------------------------------------------------------- installed blocks

FilterKeys == { "projectKeys", "issueTypes", "priorities", "statuses" }

\* The blocks a flow may hold: id, typeId and the block's filter config.
BlockPool ==
    { [id |-> "b1", typeId |-> "issueUpdated", config |-> EmptyObject],
      [id |-> "b2", typeId |-> "issueUpdated",
       config |-> [projectKeys |-> << "PROJ" >>,
                   issueTypes |-> << "Task", "Story" >>]],
      [id |-> "b3", typeId |-> "issueUpdated",
       config |-> [projectKeys |-> << >>, issueTypes |-> << "Bug" >>]],
      [id |-> "b4", typeId |-> "issueCreated",
       config |-> [projectKeys |-> << "OTHER", "PROJ" >>,
                   issueTypes |-> << "Task" >>]],
      [id |-> "b5", typeId |-> "commentCreated",
       config |-> [projectKeys |-> << "PROJ" >>, priorities |-> << >>]],
      [id |-> "b6", typeId |-> "versionReleased", config |-> EmptyObject] }

Registries == { reg \in SUBSET BlockPool : Cardinality(reg) <= MaxBlocks }

\* blocksApi.list({typeIds}): the installed blocks of the given types.
BlocksList(installed, typeIds) == { b \in installed : b.typeId \in typeIds }

Range(seq) == { seq[i] : i \in DOMAIN seq }

\* obj?.k1?.k2?...: the set holding the value at the path, empty when a
\* member on the way is undefined.
RECURSIVE GetPath(_, _)
GetPath(obj, path) ==
    IF path = << >> THEN { obj }
    ELSE IF Has(obj, Head(path)) THEN GetPath(obj[Head(path)], Tail(path))
    ELSE { }

\* The field of the message body that a filter key constrains.
FilterPath(key) ==
    CASE key = "projectKeys" -> << "issue", "fields", "project", "key" >>
      [] key = "issueTypes"  -> << "issue", "fields", "issuetype", "name" >>
      [] key = "priorities"  -> << "issue", "fields", "priority", "name" >>
      [] key = "statuses"    -> << "issue", "fields", "status", "name" >>

\* A block's config accepts a message body iff every filter key configured
\* with a non-empty list contains the body's value at that key's path.
validatePayloadAgainstBlockConfig(messageBody, config) ==
    \A key \in FilterKeys :
        (Has(config, key) /\ Len(config[key]) > 0)
            => \E v \in GetPath(messageBody, FilterPath(key)) :
                   v \in Range(config[key])

\* ------------------------------------------------- app.http.onRequest

Undefined == "undefined"

\* JSON.parse(rawBody): the value, or a SyntaxError.
JSONParse(raw) ==
    IF raw.text = "json" THEN [ok |-> TRUE, value |-> raw.value]
    ELSE [ok |-> FALSE]

\* payload.webhookEvent for a payload that is not null.
WebhookEventOf(payload) ==
    IF payload.type = "object" /\ Has(payload.members, "webhookEvent")
    THEN payload.members.webhookEvent
    ELSE Undefined

\* The members of a payload that is not null (a number has none).
MembersOf(payload) ==
    IF payload.type = "object" THEN payload.members ELSE EmptyObject

\* Mutant: a sub-object missing from the payload is replaced by {}.
ClassifyEventDefaulting(payload) ==
    LET ev == WebhookEventOf(payload)
        m  == MembersOf(payload)
        Or(keys) == [k \in keys |-> IF Has(m, k) THEN m[k] ELSE EmptyObject]
    IN  CASE ev = "jira:issue_created" ->
               [typeId |-> "issueCreated", messageBody |-> Or({ "issue", "user" })]
          [] ev = "jira:issue_updated" ->
               [typeId |-> "issueUpdated",
                messageBody |-> Or({ "issue", "user", "changelog" })]
          [] ev = "comment_created" ->
               [typeId |-> "commentCreated",
                messageBody |-> Or({ "issue", "comment" })]
          [] ev = "jira:version_released" ->
               [typeId |-> "versionReleased",
                messageBody |-> Or({ "version", "user" })]
          [] OTHER ->
               [typeId |-> Undefined, messageBody |-> EmptyObject]

\* Mutant: every other event takes the last branch of the chain (a final
\* else in place of the last else-if).
ClassifyEventFinalElse(payload) ==
    LET ev == WebhookEventOf(payload)
        m  == MembersOf(payload)
    IN  CASE ev = "jira:issue_created" ->
               [typeId |-> "issueCreated",
                messageBody |-> Pick(m, { "issue", "user" })]
          [] ev = "jira:issue_updated" ->
               [typeId |-> "issueUpdated",
                messageBody |-> Pick(m, { "issue", "user", "changelog" })]
          [] ev = "comment_created" ->
               [typeId |-> "commentCreated",
                messageBody |-> Pick(m, { "issue", "comment" })]
          [] OTHER ->
               [typeId |-> "versionReleased",
                messageBody |-> Pick(m, { "version", "user" })]

\* The if / else-if chain on payload.webhookEvent.
ClassifyEvent(payload) ==
    LET ev == WebhookEventOf(payload)
        m  == MembersOf(payload)
    IN  CASE ev = "jira:issue_created" ->
               [typeId |-> "issueCreated",
                messageBody |-> Pick(m, { "issue", "user" })]
          [] ev = "jira:issue_updated" ->
               [typeId |-> "issueUpdated",
                messageBody |-> Pick(m, { "issue", "user", "changelog" })]
          [] ev = "comment_created" ->
               [typeId |-> "commentCreated",
                messageBody |-> Pick(m, { "issue", "comment" })]
          [] ev = "jira:version_released" ->
               [typeId |-> "versionReleased",
                messageBody |-> Pick(m, { "version", "user" })]
          [] OTHER ->
               [typeId |-> Undefined, messageBody |-> EmptyObject]

\* `sha256=${createHmac("sha256", webhookSecret).update(rawBody).digest("hex")}`
ExpectedSignature(cfg, req) ==
    "sha256=" \o Hex(HmacSha256(cfg.webhookSecret, req.rawBody))

\* Mutant: the listed blocks are not filtered by their config.
FilteredBlockIdsUnfiltered(blocks, body) == { b.id : b \in blocks }

\* listOutput.blocks.filter(validatePayloadAgainstBlockConfig).map(block.id)
FilteredBlockIds(blocks, body) ==
    { b.id : b \in { c \in blocks : validatePayloadAgainstBlockConfig(body, c.config) } }

HttpRespond(status, body, ok) ==
    [op |-> "respond", statusCode |-> status, body |-> body, ok |-> ok]

\* Mutant: the negation of the comparison is dropped.
SignatureVerdictInverted(cfg, req) ==
    IF ~Truthy(cfg, "webhookSecret") THEN "skipped"
    ELSE IF ~Truthy(req.headers, SignatureHeader) THEN "missing"
    ELSE LET eq == TimingSafeEqual(ExpectedSignature(cfg, req),
                                   req.headers[SignatureHeader])
         IN  CASE eq = "throws" -> "threw"
               [] eq = "true"   -> "invalid"
               [] eq = "false"  -> "accepted"

\* Mutant: no test for a missing header; Buffer.from(undefined) throws.
SignatureVerdictNoHeaderTest(cfg, req) ==
    IF ~Truthy(cfg, "webhookSecret") THEN "skipped"
    ELSE IF ~Has(req.headers, SignatureHeader) THEN "threw"
    ELSE LET eq == TimingSafeEqual(ExpectedSignature(cfg, req),
                                   req.headers[SignatureHeader])
         IN  CASE eq = "throws" -> "threw"
               [] eq = "true"   -> "accepted"
               [] eq = "false"  -> "invalid"

\* Mutant: the check is made whether or not a secret is configured.
SignatureVerdictAlways(cfg, req) ==
    LET secret == IF Has(cfg, "webhookSecret") THEN cfg.webhookSecret ELSE ""
    IN  IF ~Truthy(req.headers, SignatureHeader) THEN "missing"
        ELSE LET eq == TimingSafeEqual(
                           "sha256=" \o Hex(HmacSha256(secret, req.rawBody)),
                           req.headers[SignatureHeader])
             IN  CASE eq = "throws" -> "threw"
                   [] eq = "true"   -> "accepted"
                   [] eq = "false"  -> "invalid"

\* The outcome of lines 179-211: no secret, no header, a throw of
\* timingSafeEqual, equal, or not equal.
SignatureVerdict(cfg, req) ==
    IF ~Truthy(cfg, "webhookSecret") THEN "skipped"
    ELSE IF ~Truthy(req.headers, SignatureHeader) THEN "missing"
    ELSE LET eq == TimingSafeEqual(ExpectedSignature(cfg, req),
                                   req.headers[SignatureHeader])
         IN  CASE eq = "throws" -> "threw"
               [] eq = "true"   -> "accepted"
               [] eq = "false"  -> "invalid"

\* Mutant: the catch block answers 500.
CatchResponse500(ok) == HttpRespond(500, "Internal Server Error", ok)

\* The response of the catch block.
CatchResponse(ok) == HttpRespond(400, "Bad Request", ok)

\* ------------------------------------------------- blocks/webhooks/helpers.ts

\* A JavaScript value: a tag and, for all but undefined and null, what it
\* holds, in a field of its own per type.  An object holds a function from
\* its own keys to values; a key the object does not have is absent from the
\* function's domain.
JsUndefined == [t |-> "undefined"]
JsNull == [t |-> "null"]
JsString(s) == [t |-> "string", str |-> s]
JsNumber(n) == [t |-> "number", num |-> n]
JsBoolean(b) == [t |-> "boolean", bool |-> b]
JsArray(items) == [t |-> "array", items |-> items]
JsObject(members) == [t |-> "object", members |-> members]

\* The outcome of a call that throws (a TypeError: a property read of null
\* or undefined, or a call of something that is not a function).
TypeError == [t |-> "TypeError"]

\* value === null || value === undefined
IsNullish(value) == value.t \in { "null", "undefined" }

\* if (value), !value, a || b
JsTruthy(value) ==
    CASE value.t \in { "undefined", "null" } -> FALSE
      [] value.t = "boolean" -> value.bool
      [] value.t = "number" -> value.num # 0
      [] value.t = "string" -> value.str # ""
      [] OTHER -> TRUE

Or(a, b) == IF JsTruthy(a) THEN a ELSE b

\* typeof value === "object" (true of null and of arrays too)
TypeofObject(value) == value.t \in { "object", "array", "null" }

\* "key" in value, for a value that is an object or an array
In(key, value) == value.t = "object" /\ key \in DOMAIN value.members

\* value.key, for a value that is neither null nor undefined
Get(value, key) ==
    CASE value.t = "object" ->
             IF key \in DOMAIN value.members THEN value.members[key] ELSE JsUndefined
      [] value.t = "array" ->
             IF key = "length" THEN JsNumber(Len(value.items)) ELSE JsUndefined
      [] value.t = "string" ->
             IF key = "length" THEN JsNumber(Len(value.str)) ELSE JsUndefined
      [] OTHER -> JsUndefined

\* value?.key
OptGet(value, key) == IF IsNullish(value) THEN JsUndefined ELSE Get(value, key)

\* x?.iso8601 || x
Unwrapped(x) == Or(OptGet(x, "iso8601"), x)

\* Mutant: the child key is always written.
extractCascadingDropdownValueAlwaysChild(value) ==
    JsObject([k \in { "parent", "child" } |->
                 IF k = "parent" THEN Get(value, "value")
                 ELSE OptGet(Get(value, "child"), "value")])

\* extractCascadingDropdownValue: {parent, child?}
extractCascadingDropdownValue(value) ==
    LET child == Get(value, "child")
    IN  IF JsTruthy(child) /\ TypeofObject(child) /\ In("value", child)
        THEN JsObject([k \in { "parent", "child" } |->
                          IF k = "parent" THEN Get(value, "value")
                          ELSE Get(child, "value")])
        ELSE JsObject([k \in { "parent" } |-> Get(value, "value")])

\* completedCyclesCount: value.completedCycles?.length || 0
CompletedCyclesCount(value) ==
    Or(OptGet(Get(value, "completedCycles"), "length"), JsNumber(0))

\* What the ongoing-cycle branch assigns: five copies at the top level and
\* the cycle nested under ongoingCycle.
OngoingMembers(ongoing) ==
    [breached |-> Get(ongoing, "breached"),
     paused |-> Get(ongoing, "paused"),
     remainingTime |-> Get(ongoing, "remainingTime"),
     elapsedTime |-> Get(ongoing, "elapsedTime"),
     goalDuration |-> Get(ongoing, "goalDuration"),
     ongoingCycle |->
         JsObject([startTime |-> Unwrapped(Get(ongoing, "startTime")),
                   breachedTime |-> Unwrapped(Get(ongoing, "breachedTime")),
                   breached |-> Get(ongoing, "breached"),
                   paused |-> Get(ongoing, "paused"),
                   withinCalendarHours |-> Get(ongoing, "withinCalendarHours"),
                   remainingTime |-> Get(ongoing, "remainingTime"),
                   elapsedTime |-> Get(ongoing, "elapsedTime"),
                   goalDuration |-> Get(ongoing, "goalDuration")])]

\* One element of completedCycles.map(...)
CompletedCycle(cycle) ==
    JsObject([startTime |-> Unwrapped(Get(cycle, "startTime")),
              stopTime |-> Unwrapped(Get(cycle, "stopTime")),
              breached |-> Get(cycle, "breached"),
              remainingTime |-> Get(cycle, "remainingTime"),
              elapsedTime |-> Get(cycle, "elapsedTime"),
              goalDuration |-> Get(cycle, "goalDuration")])

\* value.completedCycles.some((c) => c.breached)
SomeBreached(cycles) ==
    JsBoolean(\E i \in DOMAIN cycles : JsTruthy(Get(cycles[i], "breached")))

\* if (!value.ongoingCycle): the completed cycles decide the top-level breached
BreachedFromCompleted(ongoing) == ~JsTruthy(ongoing)

\* value.completedCycles && value.completedCycles.length > 0
HasCompletedCycles(completed) ==
    /\ JsTruthy(completed)
    /\ LET length == Get(completed, "length")
       IN  length.t = "number" /\ length.num > 0

\* extractSlaFieldValue.  It throws when completedCycles has a length above
\* zero and is not an array (.map is not a function) or has a null or
\* undefined element (cycle.startTime).
extractSlaFieldValue(value) ==
    LET ongoing == Get(value, "ongoingCycle")
        completed == Get(value, "completedCycles")
        result == [name |-> Get(value, "name"),
                   breached |-> JsBoolean(FALSE),
                   completedCyclesCount |-> CompletedCyclesCount(value)]
        withOngoing == IF JsTruthy(ongoing)
                       THEN OngoingMembers(ongoing) @@ result
                       ELSE result
    IN  IF ~HasCompletedCycles(completed) THEN JsObject(withOngoing)
        ELSE IF completed.t # "array" THEN TypeError
        ELSE IF \E i \in DOMAIN completed.items : IsNullish(completed.items[i])
             THEN TypeError
        ELSE LET cycles == [i \in DOMAIN completed.items |->
                               CompletedCycle(completed.items[i])]
                 withCompleted == [completedCycles |-> JsArray(cycles)]
                                      @@ withOngoing
             IN  JsObject(IF BreachedFromCompleted(ongoing)
                          THEN [breached |-> SomeBreached(completed.items)]
                                   @@ withCompleted
                          ELSE withCompleted)

\* The metadata argument when the caller passes none.
NoMetadata == EmptyObject

\* metadata?.type
MetadataType(metadata) ==
    IF Has(metadata, "type") THEN metadata.type ELSE Undefined

\* Mutant: the whole user object is returned.
UserReferenceWhole(value) == value

\* { accountId: value.accountId, displayName: value.displayName,
\*   emailAddress: value.emailAddress }
UserReference(value) ==
    JsObject([accountId |-> Get(value, "accountId"),
              displayName |-> Get(value, "displayName"),
              emailAddress |-> Get(value, "emailAddress")])

\* value.map((item) => extractFieldValue(item, metadata))
ElementMetadata(metadata) == metadata

\* Mutant: the cascading rule does not look at the metadata type.
IsCascadingAnyType(value, metadata) == In("value", value)

\* metadata?.type === "option-with-child" && "value" in value
IsCascading(value, metadata) ==
    MetadataType(metadata) = "option-with-child" /\ In("value", value)

\* "ongoingCycle" in value || "completedCycles" in value
IsSla(value) == In("ongoingCycle", value) \/ In("completedCycles", value)

\* extractFieldValue, the first definition of helpers.ts (lines 11-53).  A
\* throw inside the call (extractSlaFieldValue, or an element of the array)
\* ends the call.
RECURSIVE extractFieldValue(_, _)
extractFieldValue(value, metadata) ==
    IF IsNullish(value) THEN value
    ELSE IF value.t = "array" THEN
        LET items == [i \in DOMAIN value.items |->
                         extractFieldValue(value.items[i], ElementMetadata(metadata))]
        IN  IF \E i \in DOMAIN items : items[i] = TypeError THEN TypeError
            ELSE JsArray(items)
    ELSE IF TypeofObject(value) THEN
        IF In("accountId", value) THEN UserReference(value)
        ELSE IF IsCascading(value, metadata)
             THEN extractCascadingDropdownValue(value)
        ELSE IF IsSla(value) THEN extractSlaFieldValue(value)
        ELSE IF In("value", value) THEN Get(value, "value")
        ELSE IF In("name", value) THEN Get(value, "name")
        ELSE value
    ELSE value

\* extractFieldValue, the second definition of helpers.ts (lines 178-215):
\* the same rules without the SLA one.
RECURSIVE extractFieldValueSecond(_, _)
extractFieldValueSecond(value, metadata) ==
    IF IsNullish(value) THEN value
    ELSE IF value.t = "array" THEN
        JsArray([i \in DOMAIN value.items |->
                    extractFieldValueSecond(value.items[i], ElementMetadata(metadata))])
    ELSE IF TypeofObject(value) THEN
        IF In("accountId", value) THEN UserReference(value)
        ELSE IF IsCascading(value, metadata)
             THEN extractCascadingDropdownValue(value)
        ELSE IF In("value", value) THEN Get(value, "value")
        ELSE IF In("name", value) THEN Get(value, "name")
        ELSE value
    ELSE value

\* helpers.ts declares extractFieldValue twice; which declaration a caller's
\* import binds is left to the build.
HelpersDefinitions == { "first", "second" }

ImportedExtractFieldValue(definition, value, metadata) ==
    IF definition = "first" THEN extractFieldValue(value, metadata)
    ELSE extractFieldValueSecond(value, metadata)

VARIABLES
    appConfig,        \* input.app.config
    request,          \* input.request
    pc,               \* the handler's position
    log,              \* what the handler has done so far, in order
    payload,          \* const payload
    typeId,           \* let typeId
    messageBody,      \* let messageBody
    installedBlocks,  \* the flow's blocks when blocksApi.list was answered
    listOutput,       \* listOutput.blocks
    blockIds          \* const blockIds

hvars == << appConfig, request, pc, log, payload, typeId, messageBody,
            installedBlocks, listOutput, blockIds >>

VARIABLES
    kvStore,      \* kv.app: the app's key-value entries
    kvSource,     \* the GET /field body the cached mapping was built from
    sync,         \* per onSync invocation: position, locals, result
    lastRead,     \* the latest cache read of a block handler
    appStatus     \* the app's status: the newStatus of the latest onSync return

cvars == << kvStore, kvSource, sync, lastRead, appStatus >>

VARIABLES
    extraction,   \* a call of helpers.ts: the function, its arguments, its outcome
    blockOutput   \* what a webhook block's onInternalMessage built last

VARIABLES
    calls,        \* the frames of extractFieldValue on the call stack, outermost first
    fetch         \* a paginated fetch: the function, its locals, its requests

xvars == << calls, fetch >>

nvars == << extraction, blockOutput, xvars >>

HInit ==
    /\ appConfig = EmptyObject
    /\ request = [headers |-> EmptyObject, rawBody |-> [text |-> "garbage"]]
    /\ pc = "idle"
    /\ log = << >>
    /\ payload = [type |-> "null"]
    /\ typeId = Undefined
    /\ messageBody = EmptyObject
    /\ installedBlocks = { }
    /\ listOutput = { }
    /\ blockIds = { }

\* A request arrives at the app's endpoint.
OnRequest(cfg, req) ==
    /\ pc = "idle"
    /\ appConfig' = cfg
    /\ request' = req
    /\ pc' = "verify"
    /\ UNCHANGED << cvars, nvars, log, payload, typeId, messageBody, installedBlocks,
                    listOutput, blockIds >>

\* if (webhookSecret) { ... }: the signature check. Without a secret no
\* check is made; a missing or wrong signature leads to the 401 response;
\* a throw of timingSafeEqual leads to the catch block.
VerifySignature ==
    /\ pc = "verify"
    /\ LET verdict == SignatureVerdict(appConfig, request)
       IN  /\ pc' = CASE verdict = "skipped"  -> "parse"
                      [] verdict = "accepted" -> "parse"
                      [] verdict = "missing"  -> "respond401"
                      [] verdict = "invalid"  -> "respond401"
                      [] verdict = "threw"    -> "catch"
           /\ log' = IF verdict = "skipped" THEN log
                     ELSE Append(log, [op |-> "verify", result |-> verdict])
    /\ UNCHANGED << cvars, nvars, appConfig, request, payload, typeId, messageBody,
                    installedBlocks, listOutput, blockIds >>

\* Mutant: the handler goes on after the 401 instead of returning.
Respond401FallsThrough ==
    /\ pc = "respond401"
    /\ \E ok \in BOOLEAN :
          /\ log' = Append(log, HttpRespond(401, "Unauthorized", ok))
          /\ pc' = IF ok THEN "parse" ELSE "catch"
    /\ UNCHANGED << cvars, nvars, appConfig, request, payload, typeId, messageBody,
                    installedBlocks, listOutput, blockIds >>

\* http.respond(401, "Unauthorized"); return.
Respond401 ==
    /\ pc = "respond401"
    /\ \E ok \in BOOLEAN :
          /\ log' = Append(log, HttpRespond(401, "Unauthorized", ok))
          /\ pc' = IF ok THEN "done" ELSE "catch"
    /\ UNCHANGED << cvars, nvars, appConfig, request, payload, typeId, messageBody,
                    installedBlocks, listOutput, blockIds >>

\* const payload = JSON.parse(input.request.rawBody)
ParsePayload ==
    /\ pc = "parse"
    /\ LET r == JSONParse(request.rawBody)
       IN  /\ log' = Append(log, [op |-> "parse", ok |-> r.ok])
           /\ IF r.ok
              THEN payload' = r.value /\ pc' = "classify"
              ELSE payload' = payload /\ pc' = "catch"
    /\ UNCHANGED << cvars, nvars, appConfig, request, typeId, messageBody,
                    installedBlocks, listOutput, blockIds >>

\* The classification on payload.webhookEvent; reading a member of null
\* throws a TypeError.
Classify ==
    /\ pc = "classify"
    /\ IF payload.type = "null"
       THEN /\ log' = Append(log, [op |-> "classify", ok |-> FALSE])
            /\ pc' = "catch"
            /\ UNCHANGED << typeId, messageBody >>
       ELSE LET c == ClassifyEvent(payload)
            IN  /\ typeId' = c.typeId
                /\ messageBody' = c.messageBody
                /\ log' = Append(log, [op |-> "classify", ok |-> TRUE])
                /\ pc' = IF c.typeId = Undefined THEN "respond200" ELSE "list"
    /\ UNCHANGED << cvars, nvars, appConfig, request, payload, installedBlocks,
                    listOutput, blockIds >>

\* await blocksApi.list({ typeIds: [typeId] })
ListBlocks ==
    /\ pc = "list"
    /\ \/ \E reg \in Registries :
             /\ installedBlocks' = reg
             /\ listOutput' = BlocksList(reg, { typeId })
             /\ log' = Append(log, [op |-> "list", typeIds |-> { typeId },
                                    ok |-> TRUE])
             /\ pc' = "filter"
       \/ /\ log' = Append(log, [op |-> "list", typeIds |-> { typeId },
                                 ok |-> FALSE])
          /\ pc' = "catch"
          /\ UNCHANGED << installedBlocks, listOutput >>
    /\ UNCHANGED << cvars, nvars, appConfig, request, payload, typeId, messageBody, blockIds >>

\* The filter over listOutput.blocks and the map to block ids.
FilterBlocks ==
    /\ pc = "filter"
    /\ \/ /\ blockIds' = FilteredBlockIds(listOutput, messageBody)
          /\ log' = Append(log, [op |-> "filter", ok |-> TRUE])
          /\ pc' = IF Cardinality(blockIds') > 0 THEN "send" ELSE "respond200"
       \/ /\ log' = Append(log, [op |-> "filter", ok |-> FALSE])
          /\ pc' = "catch"
          /\ UNCHANGED blockIds
    /\ UNCHANGED << cvars, nvars, appConfig, request, payload, typeId, messageBody,
                    installedBlocks, listOutput >>

\* Mutant: one sendToBlocks call per matching block, the first one awaited.
SendToBlocksOneByOne ==
    /\ pc = "send"
    /\ \E ok \in BOOLEAN, id \in blockIds :
          /\ log' = Append(log, [op |-> "send", blockIds |-> { id },
                                 body |-> messageBody, ok |-> ok])
          /\ pc' = IF ~ok THEN "catch"
                   ELSE IF \A i \in DOMAIN log : log[i].op # "send"
                             /\ Cardinality(blockIds) > 1
                        THEN "send" ELSE "respond200"
    /\ UNCHANGED << cvars, nvars, appConfig, request, payload, typeId, messageBody,
                    installedBlocks, listOutput, blockIds >>

\* await messaging.sendToBlocks({ blockIds, body: messageBody })
SendToBlocks ==
    /\ pc = "send"
    /\ \E ok \in BOOLEAN :
          /\ log' = Append(log, [op |-> "send", blockIds |-> blockIds,
                                 body |-> messageBody, ok |-> ok])
          /\ pc' = IF ok THEN "respond200" ELSE "catch"
    /\ UNCHANGED << cvars, nvars, appConfig, request, payload, typeId, messageBody,
                    installedBlocks, listOutput, blockIds >>

\* await http.respond(200, "OK")
Respond200 ==
    /\ pc = "respond200"
    /\ \E ok \in BOOLEAN :
          /\ log' = Append(log, HttpRespond(200, "OK", ok))
          /\ pc' = IF ok THEN "done" ELSE "catch"
    /\ UNCHANGED << cvars, nvars, appConfig, request, payload, typeId, messageBody,
                    installedBlocks, listOutput, blockIds >>

\* catch (error) { http.respond(400, "Bad Request") }
CatchRespond400 ==
    /\ pc = "catch"
    /\ \E ok \in BOOLEAN :
          /\ log' = Append(log, CatchResponse(ok))
          /\ pc' = "done"
    /\ UNCHANGED << cvars, nvars, appConfig, request, payload, typeId, messageBody,
                    installedBlocks, listOutput, blockIds >>

\* ------------------------------------- field-mapping cache: the refresh

FIELD_MAPPING_KEY == "jira_field_mapping"

Null == "<null>"

\* Fields the Jira instance may define: {id, name, custom, schema?: {type}}.
JiraFields ==
    << [id |-> "summary", name |-> "Summary", custom |-> FALSE,
        schema |-> [type |-> "string"]],
       [id |-> "customfield_10001", name |-> "Sprint", custom |-> TRUE],
       [id |-> "customfield_10002", name |-> "Region", custom |-> TRUE,
        schema |-> [type |-> "option-with-child"]] >>

\* The bodies GET /field may return: up to MaxFields of the fields, in the
\* instance's order.
FieldResponses ==
    { resp \in UNION { [1..n -> Range(JiraFields)] : n \in 0..MaxFields } :
        \A i, j \in DOMAIN resp :
            i < j => \E a, b \in DOMAIN JiraFields :
                        a < b /\ resp[i] = JiraFields[a] /\ resp[j] = JiraFields[b] }

\* obj[key] = value
Put(obj, key, value) ==
    [k \in DOMAIN obj \cup { key } |-> IF k = key THEN value ELSE obj[k]]

\* for (const field of fields) fieldMapping[field.id] =
\*   { name: field.name, type: field.schema?.type ?? null }
RECURSIVE BuildFieldMapping(_, _)
BuildFieldMapping(fields, fieldMapping) ==
    IF fields = << >> THEN fieldMapping
    ELSE LET field == Head(fields)
         IN  BuildFieldMapping(
                 Tail(fields),
                 Put(fieldMapping, field.id,
                     [name |-> field.name,
                      type |-> IF Has(field, "schema") THEN field.schema.type
                               ELSE Null]))

\* fieldMappingResult?.value || {}
ReadFieldMapping(store) ==
    IF Has(store, FIELD_MAPPING_KEY) THEN store[FIELD_MAPPING_KEY]
    ELSE EmptyObject

\* The two ways a sync is started: the hourly schedule (lifecycle.sync())
\* and an explicit sync (install, config change).
Syncs == { "scheduled", "explicit" }

\* The block handlers that read the cache.
Readers == { "issueCreated", "issueUpdated", "searchIssues" }

IdleSync ==
    [pc |-> "idle", fields |-> << >>, fieldMapping |-> EmptyObject,
     newStatus |-> Undefined, wrote |-> FALSE]

CInit ==
    /\ kvStore = EmptyObject
    /\ kvSource = << >>
    /\ sync = [s \in Syncs |-> IdleSync]
    /\ lastRead = [by |-> Undefined, fieldMapping |-> EmptyObject,
                   source |-> << >>, cached |-> FALSE]
    /\ appStatus = "draft"

\* Mutant: the refresh empties the cache entry before it fetches.
StartSyncClearing(s) ==
    /\ sync[s].pc \in { "idle", "done" }
    /\ sync' = [sync EXCEPT ![s] = [IdleSync EXCEPT !.pc = "myself"]]
    /\ kvStore' = Put(kvStore, FIELD_MAPPING_KEY, EmptyObject)
    /\ UNCHANGED << kvSource, lastRead, appStatus, hvars, nvars >>

\* Mutant: a failed sync is not started again.
StartSyncUnlessFailed(s) ==
    /\ \/ sync[s].pc = "idle"
       \/ sync[s].pc = "done" /\ sync[s].newStatus # "failed"
    /\ sync' = [sync EXCEPT ![s] = [IdleSync EXCEPT !.pc = "myself"]]
    /\ UNCHANGED << kvStore, kvSource, lastRead, appStatus, hvars, nvars >>

\* onSync is invoked: createJiraClient, then GET /myself is awaited.
StartSync(s) ==
    /\ sync[s].pc \in { "idle", "done" }
    /\ sync' = [sync EXCEPT ![s] = [IdleSync EXCEPT !.pc = "myself"]]
    /\ UNCHANGED << kvStore, kvSource, lastRead, appStatus, hvars, nvars >>

\* GET /myself answers: the credentials are accepted, or the call fails
\* and the catch block returns newStatus "failed".
MyselfReturns(s) ==
    /\ sync[s].pc = "myself"
    /\ \E ok \in BOOLEAN :
          /\ sync' = [sync EXCEPT ![s] =
                         IF ok THEN [@ EXCEPT !.pc = "field"]
                         ELSE [@ EXCEPT !.pc = "done", !.newStatus = "failed"]]
          /\ appStatus' = IF ok THEN appStatus ELSE "failed"
    /\ UNCHANGED << kvStore, kvSource, lastRead, hvars, nvars >>

\* fetchAndCacheFieldMapping: GET /field answers and the mapping is built
\* in a local object, or the call fails.
FieldReturns(s) ==
    /\ sync[s].pc = "field"
    /\ \/ /\ \E resp \in FieldResponses :
                sync' = [sync EXCEPT ![s] =
                            [@ EXCEPT !.pc = "set", !.fields = resp,
                                      !.fieldMapping =
                                          BuildFieldMapping(resp, EmptyObject)]]
          /\ UNCHANGED appStatus
       \/ /\ sync' = [sync EXCEPT ![s] =
                         [@ EXCEPT !.pc = "done", !.newStatus = "failed"]]
          /\ appStatus' = "failed"
    /\ UNCHANGED << kvStore, kvSource, lastRead, hvars, nvars >>

\* Mutant: the entry is stored inside the loop, once per field.
KvSetPerField(s) ==
    /\ sync[s].pc = "set"
    /\ \E n \in 1..Len(sync[s].fields) :
          /\ kvStore' = Put(kvStore, FIELD_MAPPING_KEY,
                            BuildFieldMapping(SubSeq(sync[s].fields, 1, n),
                                              EmptyObject))
          /\ kvSource' = sync[s].fields
          /\ sync' = [sync EXCEPT ![s] =
                         IF n = Len(sync[s].fields)
                         THEN [@ EXCEPT !.pc = "return", !.wrote = TRUE]
                         ELSE @]
    /\ UNCHANGED << lastRead, appStatus, hvars, nvars >>

\* Mutant: the stored value carries a stamp that differs from run to run.
KvSetStamped(s) ==
    /\ sync[s].pc = "set"
    /\ \/ /\ kvStore' =
                Put(kvStore, FIELD_MAPPING_KEY,
                    Put(sync[s].fieldMapping, "refreshedAt",
                        [name |-> IF /\ Has(kvStore, FIELD_MAPPING_KEY)
                                     /\ Has(kvStore[FIELD_MAPPING_KEY], "refreshedAt")
                                     /\ kvStore[FIELD_MAPPING_KEY]["refreshedAt"].name = "t1"
                                  THEN "t2" ELSE "t1",
                         type |-> Null]))
          /\ kvSource' = sync[s].fields
          /\ sync' = [sync EXCEPT ![s] = [@ EXCEPT !.pc = "return", !.wrote = TRUE]]
          /\ UNCHANGED appStatus
       \/ /\ sync' = [sync EXCEPT ![s] =
                         [@ EXCEPT !.pc = "done", !.newStatus = "failed"]]
          /\ appStatus' = "failed"
          /\ UNCHANGED << kvStore, kvSource >>
    /\ UNCHANGED << lastRead, hvars, nvars >>

\* Mutant: an entry already stored is kept; the first writer wins.
KvSetFirstWins(s) ==
    /\ sync[s].pc = "set"
    /\ \/ /\ IF Has(kvStore, FIELD_MAPPING_KEY)
             THEN UNCHANGED << kvStore, kvSource >>
             ELSE /\ kvStore' = Put(kvStore, FIELD_MAPPING_KEY,
                                    sync[s].fieldMapping)
                  /\ kvSource' = sync[s].fields
          /\ sync' = [sync EXCEPT ![s] = [@ EXCEPT !.pc = "return", !.wrote = TRUE]]
          /\ UNCHANGED appStatus
       \/ /\ sync' = [sync EXCEPT ![s] =
                         [@ EXCEPT !.pc = "done", !.newStatus = "failed"]]
          /\ appStatus' = "failed"
          /\ UNCHANGED << kvStore, kvSource >>
    /\ UNCHANGED << lastRead, hvars, nvars >>

\* Mutant: the new mapping is merged into the entry already stored.
KvSetMerging(s) ==
    /\ sync[s].pc = "set"
    /\ \/ /\ kvStore' =
                Put(kvStore, FIELD_MAPPING_KEY,
                    [id \in DOMAIN sync[s].fieldMapping
                                \cup DOMAIN ReadFieldMapping(kvStore) |->
                        IF Has(sync[s].fieldMapping, id)
                        THEN sync[s].fieldMapping[id]
                        ELSE ReadFieldMapping(kvStore)[id]])
          /\ kvSource' = sync[s].fields
          /\ sync' = [sync EXCEPT ![s] = [@ EXCEPT !.pc = "return", !.wrote = TRUE]]
          /\ UNCHANGED appStatus
       \/ /\ sync' = [sync EXCEPT ![s] =
                         [@ EXCEPT !.pc = "done", !.newStatus = "failed"]]
          /\ appStatus' = "failed"
          /\ UNCHANGED << kvStore, kvSource >>
    /\ UNCHANGED << lastRead, hvars, nvars >>

\* await kv.app.set({ key: FIELD_MAPPING_KEY, value: fieldMapping }): the
\* entry is replaced in one write, or the call fails and nothing is stored.
KvSet(s) ==
    /\ sync[s].pc = "set"
    /\ \/ /\ kvStore' = Put(kvStore, FIELD_MAPPING_KEY, sync[s].fieldMapping)
          /\ kvSource' = sync[s].fields
          /\ sync' = [sync EXCEPT ![s] = [@ EXCEPT !.pc = "return", !.wrote = TRUE]]
          /\ UNCHANGED appStatus
       \/ /\ sync' = [sync EXCEPT ![s] =
                         [@ EXCEPT !.pc = "done", !.newStatus = "failed"]]
          /\ appStatus' = "failed"
          /\ UNCHANGED << kvStore, kvSource >>
    /\ UNCHANGED << lastRead, hvars, nvars >>

\* The rest of onSync after the mapping is cached: return newStatus "ready".
SyncReturns(s) ==
    /\ sync[s].pc = "return"
    /\ sync' = [sync EXCEPT ![s] = [@ EXCEPT !.pc = "done", !.newStatus = "ready"]]
    /\ appStatus' = "ready"
    /\ UNCHANGED << kvStore, kvSource, lastRead, hvars, nvars >>

\* A block handler gets the mapping: kv.app.get("jira_field_mapping").
ReadCache(r) ==
    /\ lastRead' = [by |-> r,
                    fieldMapping |-> ReadFieldMapping(kvStore),
                    source |-> kvSource,
                    cached |-> Has(kvStore, FIELD_MAPPING_KEY)]
    /\ UNCHANGED << kvStore, kvSource, sync, appStatus, hvars, nvars >>

\* ------------------------------------------------ raw Jira field values

\* All sequences over a set up to a length.
SeqsUpTo(items, n) == UNION { [1..k -> items] : k \in 0..n }

Scalars ==
    { JsString("High"), JsString(""), JsNumber(7), JsNumber(0),
      JsBoolean(TRUE) }

\* User references: {accountId, displayName, emailAddress, self, ...}.
Users ==
    { JsObject([accountId |-> JsString("u1"), displayName |-> JsString("Ann"),
                emailAddress |-> JsString("ann@example.com"),
                self |-> JsString("https://jira/u1")]),
      JsObject([accountId |-> JsString("u2"), displayName |-> JsString("Bob")]),
      JsObject([accountId |-> JsString("u1"), displayName |-> JsString("Ann"),
                emailAddress |-> JsString("ann@example.com"),
                value |-> JsString("P"), name |-> JsString("N"),
                avatarUrls |-> JsString("https://jira/a1")]) }

\* Select options, with and without a nested child, and other plain objects.
Children ==
    { JsObject([value |-> JsString("C"), id |-> JsString("11")]),
      JsObject([id |-> JsString("11")]),
      JsNull, JsString("C"), JsArray(<< JsString("C") >>) }

Options ==
    { JsObject([value |-> JsString("P"), id |-> JsString("10")]),
      JsObject([value |-> JsString("P"), name |-> JsString("N")]),
      JsObject([name |-> JsString("N"), id |-> JsString("10")]),
      JsObject([id |-> JsString("10")]),
      JsObject(EmptyObject) }
    \cup { JsObject([value |-> JsString("P"), child |-> c]) : c \in Children }

\* SLA cycles.
Duration(n) == JsObject([millis |-> JsNumber(n)])

OngoingCycles ==
    { JsObject([startTime |-> JsObject([iso8601 |-> JsString("t1")]),
                breachedTime |-> JsObject([iso8601 |-> JsString("t9")]),
                breached |-> JsBoolean(FALSE), paused |-> JsBoolean(TRUE),
                withinCalendarHours |-> JsBoolean(TRUE),
                remainingTime |-> Duration(3), elapsedTime |-> Duration(1),
                goalDuration |-> Duration(4)]),
      JsObject([startTime |-> JsString("t2"),
                breached |-> JsBoolean(TRUE), paused |-> JsBoolean(FALSE),
                remainingTime |-> Duration(0), elapsedTime |-> Duration(5),
                goalDuration |-> Duration(4)]) }

CompletedCycles ==
    { JsObject([startTime |-> JsObject([iso8601 |-> JsString("t1")]),
                stopTime |-> JsObject([iso8601 |-> JsString("t3")]),
                breached |-> JsBoolean(TRUE),
                remainingTime |-> Duration(0), elapsedTime |-> Duration(5),
                goalDuration |-> Duration(4)]),
      JsObject([startTime |-> JsString("t4"), stopTime |-> JsString("t5"),
                breached |-> JsBoolean(FALSE),
                remainingTime |-> Duration(2), elapsedTime |-> Duration(2),
                goalDuration |-> Duration(4)]) }

\* What the ongoingCycle and completedCycles members may hold, well formed
\* or not.
OngoingValues == OngoingCycles \cup { JsNull, JsString("soon") }

CompletedValues ==
    { JsArray(cycles) : cycles \in SeqsUpTo(CompletedCycles, MaxItems) }
    \cup { JsArray(<< JsNull >>), JsNull, JsString("soon"), JsNumber(3) }

SlaObjects ==
    { JsObject(cyc @@ extra) :
        cyc \in ({ [k \in { "ongoingCycle", "completedCycles" } |->
                       IF k = "ongoingCycle" THEN o ELSE c] :
                     o \in OngoingValues, c \in CompletedValues }
                 \cup { [k \in { "ongoingCycle" } |-> o] : o \in OngoingValues }
                 \cup { [k \in { "completedCycles" } |-> c] : c \in CompletedValues }),
        extra \in { EmptyObject,
                    [k \in { "name" } |-> JsString("Time to resolution")],
                    [k \in { "value" } |-> JsString("P")] } }

\* Elements of array-valued fields: one of each shape, one array, and one SLA
\* object with a null completed cycle.
ArrayItems ==
    { JsNull, JsString("High"),
      JsObject([accountId |-> JsString("u2"), displayName |-> JsString("Bob")]),
      JsObject([value |-> JsString("P"),
                child |-> JsObject([value |-> JsString("C")])]),
      JsObject([name |-> JsString("N"), id |-> JsString("10")]),
      JsObject([name |-> JsString("Time to resolution"),
                completedCycles |-> JsArray(<< CHOOSE c \in CompletedCycles :
                                                  JsTruthy(Get(c, "breached")) >>)]),
      JsObject([completedCycles |-> JsArray(<< JsNull >>)]),
      JsArray(<< JsString("High") >>) }

Arrays == { JsArray(items) : items \in SeqsUpTo(ArrayItems, MaxItems) }

RawFieldValues ==
    { JsNull, JsUndefined } \cup Scalars \cup Users \cup Options
        \cup SlaObjects \cup Arrays

\* The metadata a caller may pass: none, or an entry of the cached mapping.
Metadatas ==
    { NoMetadata,
      [name |-> "Region", type |-> "option-with-child"],
      [name |-> "Sprint", type |-> Null],
      [name |-> "Summary", type |-> "string"] }

\* The outcome slot of a call that has not been made.
Pending == [t |-> "pending"]

ExtractionInputs ==
    [fn : { "none" }, definition : HelpersDefinitions,
     value : RawFieldValues, metadata : Metadatas, result : { Pending }]

\* A webhook block before a message reaches it.
IdleBlock ==
    [pc |-> "idle", block |-> "none", fields |-> << >>,
     fieldMapping |-> EmptyObject, customFields |-> EmptyObject]

\* What a server answers to a page request: how many items the page holds
\* and whether it is marked as the last one.
PageResponses == [count : 0 .. MaxPage, isLastPage : BOOLEAN]

\* A server: its answer to the request at each start offset; offsets past
\* MaxTotal are answered as MaxTotal is.
Servers == [0 .. MaxTotal -> PageResponses]

\* The servers that page through a finite item set of at most MaxTotal
\* items: a page never reaches past the end of the set.
FiniteServers ==
    { server \in Servers :
        \A start \in 0 .. MaxTotal : start + server[start].count <= MaxTotal }

ServerResponse(server, start) ==
    server[IF start > MaxTotal THEN MaxTotal ELSE start]

\* for (let page = 0; page < 10; page++)
ProjectPages == 10

\* The requests of a fetch that are recorded, by their start offsets.
MaxRequests == ProjectPages + 1

Record(requests, start) ==
    IF Len(requests) < MaxRequests THEN Append(requests, start) ELSE requests

\* A paginated fetch that has not been called.
IdleFetch ==
    [fn |-> "none", pc |-> "idle", start |-> 0, page |-> 0, items |-> 0,
     requests |-> << >>,
     server |-> [start \in 0 .. MaxTotal |->
                    [count |-> 0, isLastPage |-> TRUE]]]

\* No call of helpers.ts, no block output and no fetch.
NInit ==
    /\ extraction = [fn |-> "none", definition |-> "first",
                     value |-> JsUndefined, metadata |-> NoMetadata,
                     result |-> Pending]
    /\ blockOutput = IdleBlock
    /\ calls = << >>
    /\ fetch = IdleFetch

\* A caller invokes the extractFieldValue it imported.
ExtractFieldValue ==
    /\ extraction.fn = "none"
    /\ extraction' =
           [extraction EXCEPT
               !.fn = "extractFieldValue",
               !.result = ImportedExtractFieldValue(extraction.definition,
                                                    extraction.value,
                                                    extraction.metadata)]
    /\ UNCHANGED << hvars, cvars, blockOutput, xvars >>

\* extractSlaFieldValue is applied to an object that has ongoingCycle or
\* completedCycles (helpers.ts:37-38).
ExtractSlaFieldValue ==
    /\ extraction.fn = "none"
    /\ extraction.value.t = "object"
    /\ IsSla(extraction.value)
    /\ extraction' =
           [extraction EXCEPT
               !.fn = "extractSlaFieldValue",
               !.result = extractSlaFieldValue(extraction.value)]
    /\ UNCHANGED << hvars, cvars, blockOutput, xvars >>

\* ------------------------------- extractFieldValue, one call at a time

\* A frame of extractFieldValue: its argument and, for an array, the elements
\* value.map has mapped so far.
Frame(value) == [value |-> value, results |-> << >>]

\* The argument of the recursive call value.map makes for the element at
\* index: extractFieldValue(item, metadata).
RecursiveArgumentWhole(value, index) == value

RecursiveArgument(value, index) == value.items[index]

\* The frame on top of the stack still has an element to map.
Mapping(frame) ==
    /\ frame.value.t = "array"
    /\ Len(frame.results) < Len(frame.value.items)

\* What the frame on top of the stack returns once it has no call to make.
FrameResult(frame) ==
    IF frame.value.t = "array" THEN JsArray(frame.results)
    ELSE ImportedExtractFieldValue(extraction.definition, frame.value,
                                   extraction.metadata)

\* A caller invokes extractFieldValue(value, metadata).
CallExtractFieldValue ==
    /\ extraction.fn = "none"
    /\ calls = << >>
    /\ extraction' = [extraction EXCEPT !.fn = "running"]
    /\ calls' = << Frame(extraction.value) >>
    /\ UNCHANGED << hvars, cvars, blockOutput, fetch >>

\* value.map calls extractFieldValue on the next element.
RecursiveCall ==
    /\ calls # << >>
    /\ Len(calls) < MaxCalls
    /\ LET frame == calls[Len(calls)]
       IN  /\ Mapping(frame)
           /\ calls' = Append(calls,
                  Frame(RecursiveArgument(frame.value, Len(frame.results) + 1)))
    /\ UNCHANGED << hvars, cvars, extraction, blockOutput, fetch >>

\* The innermost call returns: to value.map of its caller, or to the caller
\* of the outermost call.
Return ==
    /\ calls # << >>
    /\ LET frame == calls[Len(calls)]
           depth == Len(calls)
       IN  /\ ~Mapping(frame)
           /\ FrameResult(frame) # TypeError
           /\ IF depth = 1
              THEN /\ calls' = << >>
                   /\ extraction' = [extraction EXCEPT
                                        !.fn = "extractFieldValue",
                                        !.result = FrameResult(frame)]
              ELSE /\ calls' = [SubSeq(calls, 1, depth - 1) EXCEPT
                                  ![depth - 1].results =
                                      Append(@, FrameResult(frame))]
                   /\ UNCHANGED extraction
    /\ UNCHANGED << hvars, cvars, blockOutput, fetch >>

\* The innermost call throws: the exception leaves every frame.
Throw ==
    /\ calls # << >>
    /\ LET frame == calls[Len(calls)]
       IN  /\ ~Mapping(frame)
           /\ FrameResult(frame) = TypeError
    /\ calls' = << >>
    /\ extraction' = [extraction EXCEPT !.fn = "extractFieldValue",
                                        !.result = TypeError]
    /\ UNCHANGED << hvars, cvars, blockOutput, fetch >>

\* ------------------------------------------------------ the paginated fetches

\* start += response.values.length
NextStart(start, count) == start + count

\* A fetch function is called: start = 0 and the first page is requested.
Called(fn, server) ==
    [IdleFetch EXCEPT !.fn = fn, !.pc = "request", !.requests = << 0 >>,
                      !.server = server]

FetchAllServiceDesks(server) ==
    /\ fetch.pc = "idle"
    /\ fetch' = Called("fetchAllServiceDesks", server)
    /\ UNCHANGED << hvars, cvars, extraction, blockOutput, calls >>

FetchAllRequestTypes(server) ==
    /\ fetch.pc = "idle"
    /\ fetch' = Called("fetchAllRequestTypes", server)
    /\ UNCHANGED << hvars, cvars, extraction, blockOutput, calls >>

FetchAllProjects(server) ==
    /\ fetch.pc = "idle"
    /\ fetch' = Called("fetchAllProjects", server)
    /\ UNCHANGED << hvars, cvars, extraction, blockOutput, calls >>

\* One round of while (true): the page arrives, its values are pushed, and
\* the loop breaks on isLastPage or requests the page at the new start.
AfterPage(f, response) ==
    IF response.isLastPage
    THEN [f EXCEPT !.items = @ + response.count, !.pc = "done"]
    ELSE [f EXCEPT !.items = @ + response.count,
                   !.start = NextStart(f.start, response.count),
                   !.requests = Record(@, NextStart(f.start, response.count))]

ServiceDesksPageReturns ==
    /\ fetch.fn = "fetchAllServiceDesks"
    /\ fetch.pc = "request"
    /\ fetch' = AfterPage(fetch, ServerResponse(fetch.server, fetch.start))
    /\ UNCHANGED << hvars, cvars, extraction, blockOutput, calls >>

RequestTypesPageReturns ==
    /\ fetch.fn = "fetchAllRequestTypes"
    /\ fetch.pc = "request"
    /\ fetch' = AfterPage(fetch, ServerResponse(fetch.server, fetch.start))
    /\ UNCHANGED << hvars, cvars, extraction, blockOutput, calls >>

\* One round of fetchAllProjects' for loop: break on an empty page, push,
\* break on isLast, else move startAt on and go to the next page while
\* page < 10.
ProjectsPageReturns ==
    /\ fetch.fn = "fetchAllProjects"
    /\ fetch.pc = "request"
    /\ LET response == ServerResponse(fetch.server, fetch.start)
           startAt == NextStart(fetch.start, response.count)
       IN  fetch' =
               IF response.count = 0 THEN [fetch EXCEPT !.pc = "done"]
               ELSE IF response.isLastPage
               THEN [fetch EXCEPT !.items = @ + response.count, !.pc = "done"]
               ELSE IF fetch.page + 1 < ProjectPages
               THEN [fetch EXCEPT !.items = @ + response.count,
                                  !.start = startAt,
                                  !.page = @ + 1,
                                  !.requests = Record(@, startAt)]
               ELSE [fetch EXCEPT !.items = @ + response.count,
                                  !.start = startAt,
                                  !.page = @ + 1,
                                  !.pc = "done"]
    /\ UNCHANGED << hvars, cvars, extraction, blockOutput, calls >>

\* ------------------------------------------------- the webhook blocks

\* The blocks that emit customFields from a webhook message.
WebhookBlocks == { "issueCreated", "issueUpdated" }

\* Object.entries(issue.fields || {}): [key, value] pairs in the object's
\* order.  customfield_10003 is a field GET /field never lists; one of its
\* values is an SLA object whose completedCycles is not an array.
Entry(key, value) == [key |-> key, value |-> value]

OptionalEntry(key, values) ==
    { << >> } \cup { << Entry(key, value) >> : value \in values }

IssueFields ==
    { a \o b \o c \o e :
        a \in { << Entry("summary", JsString("Fix login")) >> },
        b \in OptionalEntry("customfield_10001", { JsNull, JsString("High") }),
        c \in OptionalEntry("customfield_10002",
                            { JsNull,
                              JsObject([value |-> JsString("P"),
                                        child |-> JsObject([value |-> JsString("C")])]) }),
        e \in OptionalEntry("customfield_10003",
                            { JsString("High"),
                              JsObject([completedCycles |-> JsString("soon")]) }) }

\* key.startsWith("customfield_")
StartsWithCustomfield(key) ==
    Len(key) >= 12 /\ SubSeq(key, 1, 12) = "customfield_"

\* An object used as a property key: String(object).
ObjectAsKey == "[object Object]"

\* issueUpdated: metadata = fieldMapping[key];
\* customFields[metadata?.name || key] = extractFieldValue(value, metadata).
\* A throw of extractFieldValue leaves the loop: the result is TypeError.
RECURSIVE IssueUpdatedCustomFields(_, _, _, _)
IssueUpdatedCustomFields(entries, fieldMapping, definition, customFields) ==
    IF entries = << >> THEN customFields
    ELSE LET key == Head(entries).key
             value == Head(entries).value
             metadata == IF Has(fieldMapping, key) THEN fieldMapping[key]
                         ELSE NoMetadata
             name == IF Has(metadata, "name") /\ metadata.name # ""
                     THEN metadata.name ELSE key
         IN  IF StartsWithCustomfield(key) /\ value # JsNull
             THEN LET extracted == ImportedExtractFieldValue(definition, value,
                                                             metadata)
                  IN  IF extracted = TypeError THEN TypeError
                      ELSE IssueUpdatedCustomFields(
                               Tail(entries), fieldMapping, definition,
                               Put(customFields, name, extracted))
             ELSE IssueUpdatedCustomFields(Tail(entries), fieldMapping,
                                           definition, customFields)

\* issueCreated: fieldName = fieldMapping[key] (the cached {name, type}
\* object); customFields[fieldName || key] = extractFieldValue(value)
RECURSIVE IssueCreatedCustomFields(_, _, _, _)
IssueCreatedCustomFields(entries, fieldMapping, definition, customFields) ==
    IF entries = << >> THEN customFields
    ELSE LET key == Head(entries).key
             value == Head(entries).value
             name == IF Has(fieldMapping, key) THEN ObjectAsKey ELSE key
         IN  IF StartsWithCustomfield(key) /\ value # JsNull
             THEN LET extracted == ImportedExtractFieldValue(definition, value,
                                                             NoMetadata)
                  IN  IF extracted = TypeError THEN TypeError
                      ELSE IssueCreatedCustomFields(
                               Tail(entries), fieldMapping, definition,
                               Put(customFields, name, extracted))
             ELSE IssueCreatedCustomFields(Tail(entries), fieldMapping,
                                           definition, customFields)

\* searchIssues, extractCustomFields(issue.fields): metadata =
\* fieldMapping[key]; customFields[metadata?.name || key] =
\* extractFieldValue(value, metadata)
RECURSIVE SearchIssuesCustomFields(_, _, _, _)
SearchIssuesCustomFields(entries, fieldMapping, definition, customFields) ==
    IF entries = << >> THEN customFields
    ELSE LET key == Head(entries).key
             value == Head(entries).value
             metadata == IF Has(fieldMapping, key) THEN fieldMapping[key]
                         ELSE NoMetadata
             name == IF Has(metadata, "name") /\ metadata.name # ""
                     THEN metadata.name ELSE key
         IN  IF StartsWithCustomfield(key) /\ value # JsNull
             THEN LET extracted == ImportedExtractFieldValue(definition, value,
                                                             metadata)
                  IN  IF extracted = TypeError THEN TypeError
                      ELSE SearchIssuesCustomFields(
                               Tail(entries), fieldMapping, definition,
                               Put(customFields, name, extracted))
             ELSE SearchIssuesCustomFields(Tail(entries), fieldMapping,
                                           definition, customFields)

\* The customFields a block builds from the fields of one issue.
CustomFieldsOf(block, entries, fieldMapping, definition) ==
    CASE block = "issueCreated" ->
             IssueCreatedCustomFields(entries, fieldMapping, definition,
                                      EmptyObject)
      [] block = "issueUpdated" ->
             IssueUpdatedCustomFields(entries, fieldMapping, definition,
                                      EmptyObject)
      [] OTHER ->
             SearchIssuesCustomFields(entries, fieldMapping, definition,
                                      EmptyObject)

\* A webhook message reaches a block: onInternalMessage starts and awaits
\* kv.app.get.
OnInternalMessage(block, fields) ==
    /\ blockOutput.pc = "idle"
    /\ blockOutput' = [IdleBlock EXCEPT !.pc = "get", !.block = block,
                                        !.fields = fields]
    /\ UNCHANGED << hvars, cvars, extraction, xvars >>

\* searchIssues: POST /search/jql has answered with an issue and the block
\* awaits kv.app.get.
SearchReturns(fields) ==
    /\ blockOutput.pc = "idle"
    /\ blockOutput' = [IdleBlock EXCEPT !.pc = "get",
                                        !.block = "searchIssues",
                                        !.fields = fields]
    /\ UNCHANGED << hvars, cvars, extraction, xvars >>

\* Mutant: the block stores the mapping it read back into kv.app.
BuildCustomFieldsCaching ==
    /\ blockOutput.pc = "get"
    /\ blockOutput' = [blockOutput EXCEPT
                          !.pc = "done",
                          !.fieldMapping = ReadFieldMapping(kvStore)]
    /\ kvStore' = Put(kvStore, FIELD_MAPPING_KEY, ReadFieldMapping(kvStore))
    /\ lastRead' = [by |-> blockOutput.block,
                    fieldMapping |-> ReadFieldMapping(kvStore),
                    source |-> kvSource,
                    cached |-> Has(kvStore, FIELD_MAPPING_KEY)]
    /\ UNCHANGED << hvars, kvSource, sync, appStatus, extraction, xvars >>

\* kv.app.get answers and the block builds customFields; a throw of
\* extractFieldValue fails the handler and nothing is emitted.
BuildCustomFields ==
    /\ blockOutput.pc = "get"
    /\ \E definition \in HelpersDefinitions :
          LET fieldMapping == ReadFieldMapping(kvStore)
              built == CustomFieldsOf(blockOutput.block, blockOutput.fields,
                                      fieldMapping, definition)
          IN  blockOutput' =
                  [blockOutput EXCEPT
                      !.pc = IF built = TypeError THEN "failed" ELSE "done",
                      !.fieldMapping = fieldMapping,
                      !.customFields = IF built = TypeError THEN EmptyObject
                                       ELSE built]
    /\ lastRead' = [by |-> blockOutput.block,
                    fieldMapping |-> ReadFieldMapping(kvStore),
                    source |-> kvSource,
                    cached |-> Has(kvStore, FIELD_MAPPING_KEY)]
    /\ UNCHANGED << hvars, kvStore, kvSource, sync, appStatus, extraction, xvars >>

\* ------------------------------------------------------------ specifications

vars == << hvars, cvars, nvars >>

Init == HInit /\ CInit /\ NInit

\* The webhook endpoint handling a request.
Next ==
    \/ \E cfg \in AppConfigs, req \in Requests : OnRequest(cfg, req)
    \/ VerifySignature
    \/ Respond401
    \/ ParsePayload
    \/ Classify
    \/ ListBlocks
    \/ FilterBlocks
    \/ SendToBlocks
    \/ Respond200
    \/ CatchRespond400

Spec == Init /\ [][Next]_vars

\* The handler on a sample of the requests: every configuration and every
\* signature header, on a body of each kind.  The handler is one async
\* function: each awaited call settles and the function runs on to its
\* return.
SampleBodies ==
    { raw \in RawBodies :
        IF raw.text = "garbage" THEN TRUE
        ELSE IF raw.value.type # "object" THEN TRUE
        ELSE LET members == raw.value.members
             IN  \/ members = EmptyObject
                 \/ /\ DOMAIN members = PayloadKeys \cup { "webhookEvent" }
                    /\ members.webhookEvent \in { "jira:issue_updated",
                                                  "jira:issue_deleted" }
                    /\ members.issue.id = "1" }

SampleRequests == { req \in Requests : req.rawBody \in SampleBodies }

NextRequest ==
    \/ \E cfg \in AppConfigs, req \in SampleRequests : OnRequest(cfg, req)
    \/ VerifySignature
    \/ Respond401
    \/ ParsePayload
    \/ Classify
    \/ ListBlocks
    \/ FilterBlocks
    \/ SendToBlocks
    \/ Respond200
    \/ CatchRespond400

SpecRequest == Init /\ [][NextRequest]_vars /\ WF_vars(NextRequest)

\* The cache: refreshes interleaved with reads.
NextCache ==
    \/ \E s \in Syncs : StartSync(s)
    \/ \E s \in Syncs : MyselfReturns(s)
    \/ \E s \in Syncs : FieldReturns(s)
    \/ \E s \in Syncs : KvSet(s)
    \/ \E s \in Syncs : SyncReturns(s)
    \/ \E r \in Readers : ReadCache(r)

SpecCache == Init /\ [][NextCache]_vars

\* The hourly schedule alone: schedules.refreshFieldMapping.onTrigger awaits
\* lifecycle.sync(), which runs onSync; block handlers read the cache.  The
\* platform fires the trigger every hour, whatever the last sync returned.
NextSchedule ==
    \/ StartSync("scheduled")
    \/ MyselfReturns("scheduled")
    \/ FieldReturns("scheduled")
    \/ KvSet("scheduled")
    \/ SyncReturns("scheduled")
    \/ \E r \in Readers : ReadCache(r)

SpecSchedule ==
    Init /\ [][NextSchedule]_vars /\ WF_vars(StartSync("scheduled"))

\* The field value normalizer on its own: the arguments are drawn at the
\* start and one of the two functions is applied.
InitExtract ==
    /\ HInit
    /\ CInit
    /\ extraction \in ExtractionInputs
    /\ blockOutput = IdleBlock
    /\ calls = << >>
    /\ fetch = IdleFetch

NextExtract ==
    \/ ExtractFieldValue
    \/ ExtractSlaFieldValue

SpecExtract == InitExtract /\ [][NextExtract]_vars

\* extractFieldValue run call by call; a started call runs to its end.
NextRecursion ==
    \/ CallExtractFieldValue
    \/ RecursiveCall
    \/ Return
    \/ Throw

SpecRecursion ==
    /\ InitExtract
    /\ [][NextRecursion]_vars
    /\ WF_vars(RecursiveCall)
    /\ WF_vars(Return)
    /\ WF_vars(Throw)

\* The webhook blocks beside the refresh that fills the cache.
NextBlocks ==
    \/ StartSync("explicit")
    \/ MyselfReturns("explicit")
    \/ FieldReturns("explicit")
    \/ KvSet("explicit")
    \/ SyncReturns("explicit")
    \/ \E block \in WebhookBlocks, fields \in IssueFields :
          OnInternalMessage(block, fields)
    \/ \E fields \in IssueFields : SearchReturns(fields)
    \/ BuildCustomFields

SpecBlocks == Init /\ [][NextBlocks]_vars

\* The paginated fetches, each against a server of its own; an awaited
\* request is answered.
NextPages ==
    \/ \E server \in FiniteServers : FetchAllServiceDesks(server)
    \/ \E server \in FiniteServers : FetchAllRequestTypes(server)
    \/ \E server \in Servers : FetchAllProjects(server)
    \/ ServiceDesksPageReturns
    \/ RequestTypesPageReturns
    \/ ProjectsPageReturns

SpecPages ==
    /\ Init
    /\ [][NextPages]_vars
    /\ WF_vars(ServiceDesksPageReturns)
    /\ WF_vars(RequestTypesPageReturns)
    /\ WF_vars(ProjectsPageReturns)

\* The app as a whole: the refresh, the webhook endpoint and the blocks, on
\* one issue and on one webhook body, sent signed and unsigned.
FrameIssueFields ==
    { fields \in IssueFields :
        /\ Len(fields) = 2
        /\ fields[2] = Entry("customfield_10001", JsString("High")) }

FrameConfigs == { [webhookSecret |-> "k1"] }

FrameRequests ==
    { req \in Requests :
        /\ Has(req.headers, SignatureHeader) =>
              req.headers[SignatureHeader] =
                  ExpectedSignature([webhookSecret |-> "k1"], req)
        /\ IF req.rawBody.text = "garbage" THEN FALSE
           ELSE IF req.rawBody.value.type # "object" THEN FALSE
           ELSE LET members == req.rawBody.value.members
                IN  /\ DOMAIN members = PayloadKeys \cup { "webhookEvent" }
                    /\ members.webhookEvent = "jira:issue_updated"
                    /\ members.issue.id = "1" }

NextFrame ==
    \/ StartSync("explicit")
    \/ MyselfReturns("explicit")
    \/ FieldReturns("explicit")
    \/ KvSet("explicit")
    \/ SyncReturns("explicit")
    \/ \E block \in WebhookBlocks, fields \in FrameIssueFields :
          OnInternalMessage(block, fields)
    \/ \E fields \in FrameIssueFields : SearchReturns(fields)
    \/ BuildCustomFields
    \/ \E cfg \in FrameConfigs, req \in FrameRequests : OnRequest(cfg, req)
    \/ VerifySignature
    \/ Respond401
    \/ ParsePayload
    \/ Classify
    \/ ListBlocks
    \/ FilterBlocks
    \/ SendToBlocks
    \/ Respond200
    \/ CatchRespond400

SpecFrame == Init /\ [][NextFrame]_vars
\* ------------------------------------------------- the webhook endpoint

SecretConfigured == Truthy(appConfig, "webhookSecret")

HeaderPresent == Has(request.headers, SignatureHeader)

\* "sha256=" + hex(HMAC-SHA256(secret, rawBody)) for the request at hand.
SignatureOfRequest ==
    "sha256=" \o Hex(HmacSha256(appConfig.webhookSecret, request.rawBody))

HeaderIsSignature ==
    HeaderPresent /\ request.headers[SignatureHeader] = SignatureOfRequest

Authenticated == ~SecretConfigured \/ HeaderIsSignature

LogHas(op) == \E i \in DOMAIN log : log[i].op = op

\* The http.respond calls of the handler, in order.
Responses == SelectSeq(log, LAMBDA e : e.op = "respond")

Answers(status, body) ==
    /\ Len(Responses) >= 1
    /\ Responses[1].statusCode = status
    /\ Responses[1].body = body
    /\ Responses[1].ok => Len(Responses) = 1

RespondedWith(status) ==
    \E i \in DOMAIN log : log[i].op = "respond" /\ log[i].statusCode = status

\* A step after authentication threw: JSON.parse, the property access on the
\* payload, blocksApi.list, the filter, or messaging.sendToBlocks.
ProcessingThrew ==
    \E i \in DOMAIN log :
        /\ log[i].op \in { "parse", "classify", "list", "filter", "send" }
        /\ ~log[i].ok

\* C1: with a secret configured, a message is sent to blocks only for a
\* request whose X-Hub-Signature header equals
\* "sha256=" + hex(HMAC-SHA256(secret, rawBody)); a request with exactly that
\* header is never answered 401 and goes on to the parsing of its body; and
\* every parse, classification, block listing, filter and send is preceded
\* by the completed (accepting) signature check.
C1_SignatureGatesDispatch ==
    SecretConfigured =>
        /\ LogHas("send") => HeaderIsSignature
        /\ HeaderIsSignature =>
              /\ ~RespondedWith(401)
              /\ pc = "done" => LogHas("parse")
        /\ \A j \in DOMAIN log :
              log[j].op \in { "parse", "classify", "list", "filter", "send" }
                 => \E i \in 1..(j - 1) :
                        log[i].op = "verify" /\ log[i].result = "accepted"

C1_Witness ==
    /\ pc = "done"
    /\ SecretConfigured
    /\ HeaderIsSignature
    /\ \E i \in DOMAIN log : log[i].op = "send" /\ log[i].ok
    /\ Answers(200, "OK")

\* C2 (as claimed): with a secret configured and a provided header that is
\* not the expected signature, of another length or of the same length, the
\* request is answered 401 "Unauthorized" and nothing is sent to a block.
C2_MismatchAnswered401 ==
    (/\ pc = "done"
     /\ SecretConfigured
     /\ HeaderPresent
     /\ request.headers[SignatureHeader] # SignatureOfRequest)
        => Answers(401, "Unauthorized") /\ ~LogHas("send")

\* C3: with a secret configured and no X-Hub-Signature header the handler
\* answers 401 "Unauthorized" and neither parses the body, lists blocks nor
\* sends a message.
C3_MissingSignature401 ==
    (SecretConfigured /\ ~HeaderPresent) =>
        /\ ~LogHas("parse") /\ ~LogHas("classify")
        /\ ~LogHas("list") /\ ~LogHas("filter") /\ ~LogHas("send")
        /\ pc = "done" => Answers(401, "Unauthorized")

C3_Witness ==
    /\ pc = "done"
    /\ SecretConfigured
    /\ ~HeaderPresent
    /\ Responses = << HttpRespond(401, "Unauthorized", TRUE) >>

\* C4: without a configured secret no signature check is made: whatever the
\* X-Hub-Signature header, the first thing the handler does is parse the
\* body, and the request is never answered 401.
C4_NoSecretSkipsVerification ==
    ~SecretConfigured =>
        /\ ~LogHas("verify")
        /\ ~RespondedWith(401)
        /\ pc \notin { "idle", "verify", "parse" } => log[1].op = "parse"

C4_Witness ==
    /\ pc = "done"
    /\ ~SecretConfigured
    /\ HeaderPresent
    /\ request.headers[SignatureHeader] # ""
    /\ LogHas("send")
    /\ Answers(200, "OK")

\* The classification table of the claim: event name -> type and body keys.
C5_Table(ev) ==
    CASE ev = "jira:issue_created" ->
           [typeId |-> "issueCreated", keys |-> { "issue", "user" }]
      [] ev = "jira:issue_updated" ->
           [typeId |-> "issueUpdated", keys |-> { "issue", "user", "changelog" }]
      [] ev = "comment_created" ->
           [typeId |-> "commentCreated", keys |-> { "issue", "comment" }]
      [] ev = "jira:version_released" ->
           [typeId |-> "versionReleased", keys |-> { "version", "user" }]
      [] OTHER -> [typeId |-> Undefined, keys |-> { }]

Classified == \E i \in DOMAIN log : log[i].op = "classify" /\ log[i].ok

\* The members of the JSON value the request body holds.
BodyMembers ==
    IF request.rawBody.value.type = "object" THEN request.rawBody.value.members
    ELSE EmptyObject

BodyEvent ==
    IF Has(BodyMembers, "webhookEvent") THEN BodyMembers.webhookEvent
    ELSE Undefined

\* C5: once a request is classified, the type is the one the table gives
\* for payload.webhookEvent (none for any other name), and the message body
\* holds, for each key of the table, exactly the payload's sub-object of
\* that name when the payload has one and no such key when it has none.
C5_ClassificationTable ==
    Classified =>
        /\ typeId = C5_Table(BodyEvent).typeId
        /\ BodyEvent \notin SupportedEvents => typeId = Undefined
        /\ typeId # Undefined =>
              /\ DOMAIN messageBody = C5_Table(BodyEvent).keys \cap DOMAIN BodyMembers
              /\ \A k \in DOMAIN messageBody : messageBody[k] = BodyMembers[k]

C5_Witness ==
    /\ Classified
    /\ typeId = "issueUpdated"
    /\ DOMAIN messageBody = { "issue", "changelog" }
    /\ Has(BodyMembers, "comment")

\* The value a filter key constrains, read from the message body.
C6_Value(body, key) ==
    LET f == IF Has(body, "issue") /\ Has(body.issue, "fields")
             THEN body.issue.fields ELSE EmptyObject
    IN  CASE key = "projectKeys" ->
               IF Has(f, "project") /\ Has(f.project, "key")
               THEN { f.project.key } ELSE { }
          [] key = "issueTypes" ->
               IF Has(f, "issuetype") /\ Has(f.issuetype, "name")
               THEN { f.issuetype.name } ELSE { }
          [] key = "priorities" ->
               IF Has(f, "priority") /\ Has(f.priority, "name")
               THEN { f.priority.name } ELSE { }
          [] key = "statuses" ->
               IF Has(f, "status") /\ Has(f.status, "name")
               THEN { f.status.name } ELSE { }

\* The subscriptions the claim says receive the message.
C6_Matching ==
    { b.id : b \in
        { c \in installedBlocks :
            /\ c.typeId = typeId
            /\ \A key \in DOMAIN c.config :
                  c.config[key] # << >> =>
                      \E v \in C6_Value(messageBody, key) :
                          \E i \in DOMAIN c.config[key] : c.config[key][i] = v } }

Filtered == \E i \in DOMAIN log : log[i].op = "filter" /\ log[i].ok

\* C6: for a classified event whose blocks were listed and filtered, the
\* blocks the message is sent to are exactly the installed blocks of the
\* event's type whose every non-empty filter list contains the body's value
\* for that key; with no such block nothing is sent.
C6_ExactMatchSet ==
    (Filtered /\ pc \in { "respond200", "done" }) =>
        /\ blockIds = C6_Matching
        /\ C6_Matching = { } => ~LogHas("send")
        /\ C6_Matching # { } =>
              \E i \in DOMAIN log :
                  /\ log[i].op = "send"
                  /\ log[i].blockIds = C6_Matching
                  /\ log[i].body = messageBody

C6_Witness ==
    /\ pc = "done"
    /\ Filtered
    /\ Cardinality(installedBlocks) = 2
    /\ \A b \in installedBlocks : b.typeId = typeId /\ b.config # EmptyObject
    /\ Cardinality(C6_Matching) = 1
    /\ \E i \in DOMAIN log : log[i].op = "send" /\ log[i].ok

\* C7: an authenticated request whose body is JSON and whose webhookEvent
\* is read as something other than the four supported names is answered
\* 200 "OK"; no block list is requested and no message is sent.
C7_UnsupportedEvent200 ==
    (/\ pc = "done"
     /\ Authenticated
     /\ request.rawBody.text = "json"
     /\ request.rawBody.value.type # "null"
     /\ BodyEvent \notin SupportedEvents)
        => /\ Answers(200, "OK")
           /\ ~LogHas("list")
           /\ ~LogHas("send")

C7_Witness ==
    /\ pc = "done"
    /\ SecretConfigured
    /\ HeaderIsSignature
    /\ request.rawBody.text = "json"
    /\ BodyEvent = "jira:issue_deleted"
    /\ Responses = << HttpRespond(200, "OK", TRUE) >>

\* C8: an authenticated request whose body does not parse, or whose
\* processing throws at a later step, gets the one response 400
\* "Bad Request" and never a 200.
C8_ProcessingError400 ==
    (pc = "done" /\ Authenticated /\ ProcessingThrew) =>
        /\ Len(Responses) = 1
        /\ Responses[1].statusCode = 400
        /\ Responses[1].body = "Bad Request"
        /\ ~RespondedWith(200)

C8_Witness ==
    /\ pc = "done"
    /\ Authenticated
    /\ \E i \in DOMAIN log : log[i].op = "send" /\ ~log[i].ok
    /\ Responses = << HttpRespond(400, "Bad Request", TRUE) >>

\* ------------------------------------------------- the field-mapping cache

\* The mapping of a whole GET /field body: one entry per field.
CompleteMapping(resp) ==
    [id \in { resp[i].id : i \in DOMAIN resp } |->
        LET f == CHOOSE g \in Range(resp) : g.id = id
        IN  [name |-> f.name,
             type |-> IF Has(f, "schema") THEN f.schema.type ELSE Null]]

\* C9: the cache entry is at every moment absent or the complete mapping of
\* one GET /field body, and every read of a block handler returns the empty
\* default (nothing cached yet) or the complete mapping of the body the
\* entry was last stored from, also while a refresh is under way.
C9_NoTornRead ==
    /\ Has(kvStore, FIELD_MAPPING_KEY) =>
          kvStore[FIELD_MAPPING_KEY] = CompleteMapping(kvSource)
    /\ lastRead.fieldMapping =
          IF lastRead.cached THEN CompleteMapping(lastRead.source)
          ELSE EmptyObject

\* A handler read the old two-field mapping while a refresh that has built
\* a different mapping has not stored it yet.
C9_Witness ==
    /\ lastRead.by = "issueUpdated"
    /\ lastRead.cached
    /\ Len(lastRead.source) = 2
    /\ \E s \in Syncs :
          /\ sync[s].pc = "set"
          /\ Len(sync[s].fields) = 2
          /\ sync[s].fieldMapping # lastRead.fieldMapping
    /\ kvStore[FIELD_MAPPING_KEY] = lastRead.fieldMapping

\* C10: the cache entry changes only in the write of a refresh that has
\* fetched the field list; a refresh that ends at the /myself call, at GET
\* /field or at the write returns newStatus "failed" and has stored
\* nothing, and that step leaves the entry as it was.
C10_FailedRefreshKeepsCache ==
    [][ /\ kvStore' # kvStore =>
              \E s \in Syncs :
                  /\ sync[s].pc = "set"
                  /\ sync'[s].pc = "return"
                  /\ kvStore' = Put(kvStore, FIELD_MAPPING_KEY,
                                    CompleteMapping(sync[s].fields))
        /\ \A s \in Syncs :
              (sync[s].pc \in { "myself", "field", "set" } /\ sync'[s].pc = "done")
                  => /\ sync'[s].newStatus = "failed"
                     /\ ~sync'[s].wrote
                     /\ kvStore' = kvStore ]_vars

\* A refresh failed at GET /field while the cache held a mapping stored by
\* an earlier refresh, and the mapping is still there.
C10_Witness ==
    /\ sync["explicit"].pc = "idle"
    /\ sync["scheduled"].pc = "done"
    /\ sync["scheduled"].newStatus = "failed"
    /\ sync["scheduled"].fields = << >>
    /\ Has(kvStore, FIELD_MAPPING_KEY)
    /\ Cardinality(DOMAIN kvStore[FIELD_MAPPING_KEY]) = 2

\* C11: a failed scheduled refresh does not stop the schedule.  Whenever a
\* scheduled refresh has ended in status "failed", the next trigger starts
\* a refresh attempt again; and an attempt that succeeds has replaced the
\* cache entry by the mapping it fetched and sets the status to "ready".
ScheduledFailed ==
    /\ sync["scheduled"].pc = "done"
    /\ sync["scheduled"].newStatus = "failed"
    /\ appStatus = "failed"

C11_ScheduleSurvivesFailure ==
    /\ [](ScheduledFailed => <>(sync["scheduled"].pc = "myself"))
    /\ [][(sync["scheduled"].pc = "return" /\ sync'["scheduled"].pc = "done")
            => /\ appStatus' = "ready"
               /\ sync'["scheduled"].newStatus = "ready"
               /\ Has(kvStore', FIELD_MAPPING_KEY)
               /\ kvStore'[FIELD_MAPPING_KEY] =
                      CompleteMapping(sync["scheduled"].fields)]_vars

C11_Witness ==
    /\ appStatus = "failed"
    /\ sync["scheduled"].pc = "return"
    /\ sync["scheduled"].wrote
    /\ Len(sync["scheduled"].fields) = MaxFields
    /\ kvStore[FIELD_MAPPING_KEY] = sync["scheduled"].fieldMapping

\* C12: refresh is idempotent.  A refresh whose GET /field body equals the
\* body the cached mapping was built from leaves the store as it was, and
\* the mapping it returns is the mapping the earlier run returned and stored.
C12_RefreshIdempotent ==
    [][\A s \in Syncs :
          (/\ sync[s].pc = "set"
           /\ sync'[s].pc = "return"
           /\ Has(kvStore, FIELD_MAPPING_KEY)
           /\ kvSource = sync[s].fields)
              => /\ kvStore' = kvStore
                 /\ sync'[s].fieldMapping = kvStore[FIELD_MAPPING_KEY]]_vars

C12_Witness ==
    /\ sync["scheduled"].pc = "done"
    /\ sync["scheduled"].newStatus = "ready"
    /\ sync["explicit"].pc = "return"
    /\ sync["explicit"].wrote
    /\ sync["explicit"].fields = sync["scheduled"].fields
    /\ Len(sync["explicit"].fields) = MaxFields
    /\ kvSource = sync["explicit"].fields
    /\ kvStore[FIELD_MAPPING_KEY] = sync["scheduled"].fieldMapping

\* ------------------------------------------------- the field value normalizer

ExtractCalled == extraction.fn = "extractFieldValue"

SlaCalled == extraction.fn = "extractSlaFieldValue"

\* C13: extractFieldValue is total: whatever the raw value and the metadata,
\* the call returns a value and does not throw.
C13_ExtractNeverThrows ==
    ExtractCalled => extraction.result # TypeError

\* The rule the claimed precedence selects for a value.
C14_Rule(value, metadata) ==
    CASE IsNullish(value) -> "null"
      [] value.t = "array" -> "array"
      [] value.t # "object" -> "passthrough"
      [] In("accountId", value) -> "user"
      [] MetadataType(metadata) = "option-with-child" /\ In("value", value)
             -> "cascading"
      [] In("ongoingCycle", value) \/ In("completedCycles", value) -> "sla"
      [] In("value", value) -> "value"
      [] In("name", value) -> "name"
      [] OTHER -> "passthrough"

\* C14: the rules apply in the order null/absent, array, user reference,
\* cascading dropdown, SLA, value unwrap, name unwrap, passthrough, and the
\* first rule whose guard holds decides the result.
C14_FirstMatchWins ==
    ExtractCalled =>
        LET value == extraction.value
            result == extraction.result
            rule == C14_Rule(value, extraction.metadata)
        IN  CASE rule = "array" -> result.t \in { "array", "TypeError" }
              [] rule = "user" ->
                     result.t = "object" /\ In("accountId", result)
                         /\ ~In("value", result) /\ ~In("name", result)
              [] rule = "cascading" ->
                     result.t = "object" /\ In("parent", result)
              [] rule = "sla" ->
                     \/ result = TypeError
                     \/ result.t = "object" /\ In("completedCyclesCount", result)
              [] rule = "value" -> result = Get(value, "value")
              [] rule = "name" -> result = Get(value, "name")
              [] OTHER -> result = value

\* C15: for an array and any metadata the result is an array of the same
\* length whose i-th element is extractFieldValue of the i-th input element
\* with the same metadata.
C15_ArrayMapsElements ==
    (ExtractCalled /\ extraction.value.t = "array") =>
        LET items == extraction.value.items
            result == extraction.result
        IN  /\ result.t = "array"
            /\ Len(result.items) = Len(items)
            /\ \A i \in DOMAIN items :
                  result.items[i] =
                      ImportedExtractFieldValue(extraction.definition, items[i],
                                                extraction.metadata)

\* C16: an object with value and without accountId, under metadata of type
\* option-with-child, gives {parent: value.value, child: value.child.value}
\* when the nested child is an object with a value key, and {parent:
\* value.value} with no child key when the child is missing or has no value
\* key.
C16_CascadingCase ==
    /\ ExtractCalled
    /\ extraction.value.t = "object"
    /\ In("value", extraction.value)
    /\ ~In("accountId", extraction.value)
    /\ MetadataType(extraction.metadata) = "option-with-child"

C16_CascadingDropdown ==
    C16_CascadingCase =>
        LET value == extraction.value
            child == Get(value, "child")
            result == extraction.result
        IN  /\ result.t = "object"
            /\ result.members["parent"] = Get(value, "value")
            /\ IF child.t = "object" /\ In("value", child)
               THEN /\ DOMAIN result.members = { "parent", "child" }
                    /\ result.members["child"] = Get(child, "value")
               ELSE DOMAIN result.members = { "parent" }

C16_Witness ==
    /\ C16_CascadingCase
    /\ In("child", extraction.value)
    /\ Get(extraction.value, "child").t = "object"
    /\ ~In("value", Get(extraction.value, "child"))
    /\ extraction.result = JsObject([parent |-> JsString("P")])

\* The length of completedCycles, 0 when it is absent or no array.
C17_Length(completed) ==
    IF completed.t = "array" THEN Len(completed.items) ELSE 0

\* C17: for an SLA object without an ongoing cycle, completedCyclesCount is
\* the length of completedCycles (0 when absent) and the top-level breached
\* is true iff some completed cycle is breached (false when there is none).
C17_CompletedCyclesSummary ==
    (SlaCalled /\ ~JsTruthy(Get(extraction.value, "ongoingCycle"))) =>
        LET completed == Get(extraction.value, "completedCycles")
            result == extraction.result
        IN  /\ result.t = "object"
            /\ result.members["completedCyclesCount"] =
                   JsNumber(C17_Length(completed))
            /\ result.members["breached"] =
                   JsBoolean(/\ completed.t = "array"
                             /\ \E i \in DOMAIN completed.items :
                                   JsTruthy(Get(completed.items[i], "breached")))

\* A timestamp as a plain string: {iso8601: s} gives s.
C18_Plain(x) == IF x.t = "object" /\ In("iso8601", x) THEN Get(x, "iso8601") ELSE x

\* C18: for an SLA object with an ongoing cycle, the top-level breached,
\* paused, remainingTime, elapsedTime and goalDuration are the ongoing
\* cycle's, whatever the completed cycles say, and the cycle is nested under
\* ongoingCycle with startTime and breachedTime as plain strings.
C18_OngoingCycleCopied ==
    (SlaCalled /\ JsTruthy(Get(extraction.value, "ongoingCycle"))) =>
        LET ongoing == Get(extraction.value, "ongoingCycle")
            result == extraction.result
        IN  /\ result.t = "object"
            /\ \A k \in { "breached", "paused", "remainingTime", "elapsedTime",
                          "goalDuration" } :
                  /\ result.members[k] = Get(ongoing, k)
                  /\ Get(result.members["ongoingCycle"], k) = Get(ongoing, k)
            /\ \A k \in { "startTime", "breachedTime" } :
                  Get(result.members["ongoingCycle"], k) =
                      C18_Plain(Get(ongoing, k))

\* C19: for an object with accountId the result has exactly the keys
\* accountId, displayName and emailAddress, copied from the input, and is the
\* same for every other input and metadata that agree on these three.
C19_Keys == { "accountId", "displayName", "emailAddress" }

C19_UserCase ==
    /\ ExtractCalled
    /\ extraction.value.t = "object"
    /\ In("accountId", extraction.value)

C19_UserProjection ==
    C19_UserCase =>
        LET result == extraction.result
        IN  /\ result.t = "object"
            /\ DOMAIN result.members = C19_Keys
            /\ \A k \in C19_Keys : result.members[k] = Get(extraction.value, k)
            /\ \A other \in Users, metadata \in Metadatas :
                  (\A k \in C19_Keys : Get(other, k) = Get(extraction.value, k))
                      => ImportedExtractFieldValue(extraction.definition,
                                                   other, metadata) = result

C19_Witness ==
    /\ C19_UserCase
    /\ In("value", extraction.value)
    /\ In("name", extraction.value)
    /\ In("avatarUrls", extraction.value)
    /\ MetadataType(extraction.metadata) = "option-with-child"
    /\ DOMAIN extraction.result.members = C19_Keys

\* ------------------------------------------------------- the webhook blocks

\* C20: issueCreated and issueUpdated key each non-null custom field whose id
\* is in the cache by the cached display name, with the value
\* extractFieldValue(raw value, cached metadata of the field).
C20_CustomFieldsByName ==
    blockOutput.pc = "done" =>
        \A i \in DOMAIN blockOutput.fields :
            LET key == blockOutput.fields[i].key
                value == blockOutput.fields[i].value
                fieldMapping == blockOutput.fieldMapping
            IN  (/\ StartsWithCustomfield(key)
                 /\ value # JsNull
                 /\ Has(fieldMapping, key))
                    => /\ Has(blockOutput.customFields, fieldMapping[key].name)
                       /\ \E definition \in HelpersDefinitions :
                             blockOutput.customFields[fieldMapping[key].name] =
                                 ImportedExtractFieldValue(definition, value,
                                                           fieldMapping[key])

\* C21: when a non-null custom field of the issue has an id that is not in
\* the cache, the handler does not fail, and customFields holds, under the
\* raw field id, the value extracted with no metadata.
C21_UnknownFieldKeptByRawId ==
    blockOutput.pc \in { "done", "failed" } =>
        \A i \in DOMAIN blockOutput.fields :
            LET key == blockOutput.fields[i].key
                value == blockOutput.fields[i].value
            IN  (/\ StartsWithCustomfield(key)
                 /\ value # JsNull
                 /\ ~Has(blockOutput.fieldMapping, key))
                    => /\ blockOutput.pc = "done"
                       /\ Has(blockOutput.customFields, key)
                       /\ \E definition \in HelpersDefinitions :
                             blockOutput.customFields[key] =
                                 ImportedExtractFieldValue(definition, value,
                                                           NoMetadata)

\* ------------------------------------------------------------- termination

\* The nesting depth of a value: 1, plus 1 for every level of array around
\* its deepest element.
RECURSIVE NestingDepth(_)
NestingDepth(value) ==
    IF value.t # "array" THEN 1
    ELSE LET depths == { NestingDepth(value.items[i]) : i \in DOMAIN value.items }
         IN  IF depths = {} THEN 1
             ELSE 1 + (CHOOSE d \in depths : \A e \in depths : e <= d)

\* Every frame but the outermost was called on an element of the array its
\* caller is mapping, which is not that array itself.
C22_SubValues ==
    \A i \in 1 .. (Len(calls) - 1) :
        /\ calls[i].value.t = "array"
        /\ \E j \in DOMAIN calls[i].value.items :
              calls[i + 1].value = calls[i].value.items[j]
        /\ calls[i + 1].value # calls[i].value
        /\ NestingDepth(calls[i + 1].value) < NestingDepth(calls[i].value)

\* C22: extractFieldValue terminates on every input: each recursive call is
\* made on an element of the array argument, the number of calls on the stack
\* never exceeds the nesting depth of the input, and a started call ends (by
\* returning or by throwing).
C22_ExtractTerminates ==
    /\ [](C22_SubValues /\ Len(calls) <= NestingDepth(extraction.value))
    /\ (extraction.fn = "running") ~> (calls = << >> /\ extraction.result # Pending)

C22_Witness ==
    /\ extraction.fn = "extractFieldValue"
    /\ calls = << >>
    /\ NestingDepth(extraction.value) = 3
    /\ extraction.result.t = "array"
    /\ extraction.result =
           ImportedExtractFieldValue(extraction.definition, extraction.value,
                                     extraction.metadata)

\* ------------------------------------------------- the refresh and its cache

\* The write of refresh s: kv.app.set has stored and the refresh goes on.
Wrote(s) == sync[s].pc = "set" /\ sync'[s].pc = "return"

\* C23: the write of a refresh leaves in the cache exactly one entry per
\* field of the GET /field body, keyed by the field id, with the field's name
\* and its schema type, or null without a schema; an id cached before that is
\* not in the body is gone.
C23_WholeMapReplaced ==
    [][\A s \in Syncs :
          Wrote(s) =>
              LET fields == sync[s].fields
                  ids == { fields[i].id : i \in DOMAIN fields }
                  stored == kvStore'[FIELD_MAPPING_KEY]
              IN  /\ DOMAIN stored = ids
                  /\ Cardinality(DOMAIN stored) = Len(fields)
                  /\ \A i \in DOMAIN fields :
                        /\ stored[fields[i].id].name = fields[i].name
                        /\ stored[fields[i].id].type =
                               IF Has(fields[i], "schema")
                               THEN fields[i].schema.type ELSE Null
                  /\ \A id \in DOMAIN ReadFieldMapping(kvStore) :
                        id \notin ids => ~Has(stored, id)]_vars

\* The explicit refresh wrote after the scheduled one, whose mapping had an
\* id and a schema-less field the new body lacks.
C23_Witness ==
    /\ sync["scheduled"].pc = "done"
    /\ sync["scheduled"].wrote
    /\ sync["explicit"].pc = "return"
    /\ kvSource = sync["explicit"].fields
    /\ Len(sync["explicit"].fields) = 1
    /\ Has(sync["scheduled"].fieldMapping, "customfield_10001")
    /\ sync["scheduled"].fieldMapping["customfield_10001"].type = Null
    /\ DOMAIN kvStore[FIELD_MAPPING_KEY] = { "customfield_10002" }

\* C24: the cache has one writer.  The jira_field_mapping entry changes only
\* in the write of a refresh; every step of the webhook endpoint and of the
\* issueCreated, issueUpdated and searchIssues handlers leaves kv.app as it
\* was.
C24_SingleWriter ==
    [][ /\ kvStore' # kvStore =>
              /\ \E s \in Syncs : Wrote(s)
              /\ hvars' = hvars
              /\ blockOutput' = blockOutput
        /\ (hvars' # hvars \/ blockOutput' # blockOutput) =>
              kvStore' = kvStore ]_vars

\* A refresh has cached a mapping, each kind of handler has run since: the
\* endpoint answered 200 and a block built customFields from that mapping,
\* which is still the cached one.
C24_Witness ==
    /\ Has(kvStore, FIELD_MAPPING_KEY)
    /\ sync["explicit"].pc = "done"
    /\ sync["explicit"].wrote
    /\ pc = "done"
    /\ RespondedWith(200)
    /\ blockOutput.pc = "done"
    /\ blockOutput.block = "searchIssues"
    /\ blockOutput.fieldMapping = kvStore[FIELD_MAPPING_KEY]
    /\ Has(blockOutput.customFields, "Sprint")

\* ------------------------------------------- cascading values without metadata

\* A cascading-dropdown value {value: P, child: {value: C}} extracted with no
\* metadata or with metadata of another type.
C25_UntypedCascadingCase ==
    /\ ExtractCalled
    /\ extraction.value.t = "object"
    /\ In("value", extraction.value)
    /\ In("child", extraction.value)
    /\ Get(extraction.value, "child").t = "object"
    /\ In("value", Get(extraction.value, "child"))
    /\ ~In("accountId", extraction.value)
    /\ ~IsSla(extraction.value)
    /\ MetadataType(extraction.metadata) # "option-with-child"

\* C25: without metadata, or with metadata of a type other than
\* option-with-child, a cascading-dropdown value is extracted as its plain
\* parent value: the result is value.value, it is no {parent, child} object,
\* and the child's value is not in it.
C25_UntypedCascadingLosesChild ==
    C25_UntypedCascadingCase =>
        LET value == extraction.value
            result == extraction.result
        IN  /\ result = Get(value, "value")
            /\ result.t # "object"
            /\ result # Get(Get(value, "child"), "value")
            /\ result # extractCascadingDropdownValue(value)

\* The metadata is present with no schema type.
C25_Witness ==
    /\ C25_UntypedCascadingCase
    /\ Has(extraction.metadata, "type")
    /\ extraction.metadata.type = Null
    /\ extraction.result = JsString("P")
    /\ Get(Get(extraction.value, "child"), "value") = JsString("C")

\* The metadata is absent.
C25_WitnessAbsent ==
    /\ C25_UntypedCascadingCase
    /\ extraction.metadata = NoMetadata
    /\ extraction.result = JsString("P")

\* ------------------------------------------------------ one response per request

\* No http.respond call of the handler has failed.
RespondNeverFailed == \A i \in DOMAIN Responses : Responses[i].ok

\* C26: on every path on which http.respond does not fail, the request gets
\* exactly one response, with status 200, 401 or 400: never two, the handler
\* always runs to its end, and at its end one response has been sent.
C26_ExactlyOneResponse ==
    /\ [](RespondNeverFailed =>
            /\ Len(Responses) <= 1
            /\ \A i \in DOMAIN Responses :
                  Responses[i].statusCode \in { 200, 401, 400 }
            /\ pc = "done" => Len(Responses) = 1)
    /\ (pc = "verify") ~> (pc = "done")

\* A request ended with the 400 of the catch block as its only response,
\* after messaging.sendToBlocks threw.
C26_Witness ==
    /\ pc = "done"
    /\ RespondNeverFailed
    /\ Len(Responses) = 1
    /\ Responses[1].statusCode = 400
    /\ \E i \in DOMAIN log : log[i].op = "send" /\ ~log[i].ok

\* ------------------------------------------------------ one message per request

\* The positions of the log at which op was done.
Positions(op) == { i \in DOMAIN log : log[i].op = op }

\* C27: a request makes at most one messaging.sendToBlocks call; the call
\* carries the ids of all the matching blocks and is made only when there is
\* one; and a 200 response comes after the call, if any, has completed.
C27_OneSendBeforeOk ==
    /\ Cardinality(Positions("send")) <= 1
    /\ \A i \in Positions("send") :
          /\ log[i].blockIds = FilteredBlockIds(listOutput, messageBody)
          /\ log[i].blockIds # { }
          /\ log[i].body = messageBody
    /\ (Filtered /\ FilteredBlockIds(listOutput, messageBody) = { })
          => Positions("send") = { }
    /\ \A j \in Positions("respond") :
          log[j].statusCode = 200 =>
              /\ \A i \in Positions("send") : i < j /\ log[i].ok
              /\ (Filtered /\ FilteredBlockIds(listOutput, messageBody) # { })
                    => Positions("send") # { }

\* Two blocks matched, one call carried both ids and the 200 followed it.
C27_Witness ==
    /\ pc = "done"
    /\ Cardinality(blockIds) = 2
    /\ \E i \in Positions("send") : log[i].blockIds = blockIds /\ log[i].ok
    /\ \E j \in Positions("respond") : log[j].statusCode = 200 /\ log[j].ok

\* No block matched: nothing was sent and the request was answered 200.
C27_WitnessNoMatch ==
    /\ pc = "done"
    /\ Filtered
    /\ listOutput # { }
    /\ blockIds = { }
    /\ Positions("send") = { }
    /\ RespondedWith(200)

\* ------------------------------------------------------ concurrent refreshes

\* Every refresh is over: none is between its start and its return.  (wrote
\* tells that the latest run of a refresh stored its mapping.)
RefreshesFinished == \A s \in Syncs : sync[s].pc \in { "idle", "done" }

\* C28: with refreshes and reads interleaved in any way, the cache is at
\* every moment empty as at the start or the complete mapping of the
\* GET /field body of one refresh; each write stores the writer's own
\* mapping whatever the other refresh is doing, nothing else changes the
\* entry, and so once all refreshes are over the cache holds the mapping of
\* the refresh that wrote last.
C28_LastWriterWins ==
    /\ [](IF Has(kvStore, FIELD_MAPPING_KEY)
          THEN /\ kvSource \in FieldResponses
               /\ kvStore[FIELD_MAPPING_KEY] =
                      BuildFieldMapping(kvSource, EmptyObject)
          ELSE kvStore = EmptyObject /\ kvSource = << >>)
    /\ [][ /\ \A s \in Syncs :
                Wrote(s) => /\ kvSource' = sync[s].fields
                            /\ ReadFieldMapping(kvStore') =
                                   BuildFieldMapping(sync[s].fields, EmptyObject)
           /\ (\A s \in Syncs : ~Wrote(s)) =>
                  /\ kvStore' = kvStore
                  /\ kvSource' = kvSource ]_vars
    /\ [](RefreshesFinished /\ (\A s \in Syncs : sync[s].wrote) =>
             \E s \in Syncs :
                 /\ sync[s].fields = kvSource
                 /\ kvStore[FIELD_MAPPING_KEY] = sync[s].fieldMapping)

\* Two refreshes overlapped, each past its write with a mapping of its own,
\* and the cache holds the mapping of the scheduled one, which wrote last.
C28_Witness ==
    /\ sync["scheduled"].pc = "return"
    /\ sync["explicit"].pc = "return"
    /\ Len(sync["scheduled"].fields) = MaxFields
    /\ Len(sync["explicit"].fields) = MaxFields
    /\ sync["scheduled"].fieldMapping # sync["explicit"].fieldMapping
    /\ kvSource = sync["scheduled"].fields
    /\ kvStore[FIELD_MAPPING_KEY] = sync["scheduled"].fieldMapping

\* ------------------------------------------------------ one entry per field

\* The fields of the issue that contribute to customFields: the key starts
\* with customfield_ and the value is not null.
ContributingFields ==
    { i \in DOMAIN blockOutput.fields :
        /\ StartsWithCustomfield(blockOutput.fields[i].key)
        /\ blockOutput.fields[i].value # JsNull }

\* C29: customFields has one entry for each issue field whose key starts with
\* customfield_ and whose value is not null, and no other entry: the number
\* of its entries is the number of those fields.
C29_OneEntryPerField ==
    blockOutput.pc = "done" =>
        Cardinality(DOMAIN blockOutput.customFields) =
            Cardinality(ContributingFields)

\* ------------------------------------------------------ pagination

\* A fetch of service desks or of request types.
DeskFetch == fetch.fn \in { "fetchAllServiceDesks", "fetchAllRequestTypes" }

\* C30: the paginated fetches make progress and end.  In fetchAllServiceDesks
\* and fetchAllRequestTypes start is the number of items accumulated so far,
\* every request after the first has a start above the previous one, and
\* against every server that pages through a finite item set the loop ends;
\* fetchAllProjects makes at most 10 page requests against any server.
C30_PagingTerminates ==
    /\ [](DeskFetch =>
            /\ fetch.pc = "request" => fetch.start = fetch.items
            /\ \A i \in 2 .. Len(fetch.requests) :
                  fetch.requests[i] > fetch.requests[i - 1])
    /\ (DeskFetch /\ fetch.pc = "request") ~> (fetch.pc = "done")
    /\ [](fetch.fn = "fetchAllProjects" =>
            /\ Len(fetch.requests) <= ProjectPages
            /\ Len(fetch.requests) = fetch.page + 1 \/ fetch.pc = "done")
    /\ (fetch.fn = "fetchAllProjects") ~> (fetch.pc = "done")

=============================================================================
